---------------------------- MODULE Spec2Model ----------------------------
(***************************************************************************)
(* A model of the hds-updater browser application: FileHandler             *)
(* (js/fileHandler.js), Flasher (js/flasher.js) and App (js/main.js).      *)
(*                                                                         *)
(* Strings are sequences of one-character strings, so that substring       *)
(* search, lower-casing and path splitting are computed, not assumed.      *)
(* A binary image (ArrayBuffer) is a record [id, len]: the identity of its *)
(* content and its byte length.                                            *)
(*                                                                         *)
(* Scheduling: JavaScript runs one task to completion, then drains the     *)
(* microtask queue.  An `await` of an engine, transport, timer or picker   *)
(* promise is a yield point (one action up to it, one action per way it    *)
(* settles).  An async function that returns or throws without any such    *)
(* await settles its caller in the same microtask drain, so the callee's   *)
(* tail and the caller's continuation are one action.                      *)
(***************************************************************************)
EXTENDS Integers, Sequences, FiniteSets, TLC

VARIABLES
    call,           \* the pure FileHandler/App call being exercised: [op, arg, ret]
    firmwareFiles,  \* App.state.firmwareFiles: [isNull, files], files insertion-ordered <<[name, data]>>
    appConnected,   \* App.state.connected
    flashing,       \* App.state.flashing
    customOffsets,  \* App.state.customOffsets: insertion-ordered <<[name, offset]>>
    advancedMode,   \* App.state.advancedMode
    table,          \* the rows of the rendered offset table: the file names, in order
    btn,            \* disabled flags of connectBtn, disconnectBtn, flashBtn
    fDevice,        \* Flasher.device: the port of a transport (its id), or Null
    fTransport,     \* Flasher.transport: a transport id, or Null
    fChip,          \* Flasher.chip: the loader whose chip object it is, Null, or Undefined
    fEsploader,     \* Flasher.esploader: a loader id (= id of the transport it wraps), or Null
    fConnected,     \* Flasher.connected
    transports,     \* every Transport object constructed so far: id -> status
    detected,       \* loaders whose .chip has been set by main()
    conn,           \* the onConnect invocations: slot -> [pc, port, outcome]
    disc,           \* the onDisconnect invocations: slot -> [pc, outcome]
    fl,             \* the onFlash invocations: slot -> record (see FlashIdle)
    eng,            \* what the flashing engine and the callbacks have observed
    hasSerial,      \* 'serial' in navigator
    ev              \* the handler step taken last (what it was and how it ended)

vars == <<call, firmwareFiles, appConnected, flashing, customOffsets, advancedMode, table,
          btn, fDevice, fTransport, fChip, fEsploader, fConnected, transports,
          detected, conn, disc, fl, eng, hasSerial, ev>>

\* Object references are positive integers
Null == 0
Undefined == -1

-----------------------------------------------------------------------------
(* Characters and strings *)

UpperAlpha == <<"A","B","C","D","E","F","G","H","I","J","K","L","M","N","O","P","Q","R","S","T","U","V","W","X","Y","Z">>
LowerAlpha == <<"a","b","c","d","e","f","g","h","i","j","k","l","m","n","o","p","q","r","s","t","u","v","w","x","y","z">>

\* String.prototype.toLowerCase, one character
LowerChar(c) ==
    IF \E i \in 1..26 : UpperAlpha[i] = c
    THEN LowerAlpha[CHOOSE i \in 1..26 : UpperAlpha[i] = c]
    ELSE c

\* String.prototype.toLowerCase
toLowerCase(s) == [i \in 1..Len(s) |-> LowerChar(s[i])]

\* String.prototype.includes
includes(s, p) ==
    \E i \in 0..(Len(s) - Len(p)) : SubSeq(s, i + 1, i + Len(p)) = p

\* String.prototype.endsWith
endsWith(s, p) ==
    /\ Len(s) >= Len(p)
    /\ SubSeq(s, Len(s) - Len(p) + 1, Len(s)) = p

P_bootloader == <<"b","o","o","t","l","o","a","d","e","r">>
P_partition == <<"p","a","r","t","i","t","i","o","n">>
P_boot_app0 == <<"b","o","o","t","_","a","p","p","0">>
P_firmware == <<"f","i","r","m","w","a","r","e">>
P_app == <<"a","p","p">>
P_littlefs == <<"l","i","t","t","l","e","f","s">>
P_spiffs == <<"s","p","i","f","f","s">>
P_fs == <<"f","s">>
P_bin == <<".","b","i","n">>
P_macosx == <<"_","_","M","A","C","O","S","X">>

-----------------------------------------------------------------------------
(* FileHandler.getFlashOffset *)

OFF_BOOTLOADER == 0          \* 0x0000
OFF_PARTITION == 32768       \* 0x8000
OFF_BOOT_APP0 == 57344       \* 0xe000
OFF_FIRMWARE == 65536        \* 0x10000
OFF_FILESYSTEM == 2686976    \* 0x290000
OFF_DEFAULT == 65536         \* 0x10000

\* a plausible slip: the firmware/app test placed before the boot_app0 test
getFlashOffset_AppFirst(filename) ==
    LET name == toLowerCase(filename) IN
    IF includes(name, P_bootloader) THEN OFF_BOOTLOADER
    ELSE IF includes(name, P_partition) THEN OFF_PARTITION
    ELSE IF includes(name, P_firmware) \/ includes(name, P_app) THEN OFF_FIRMWARE
    ELSE IF includes(name, P_boot_app0) THEN OFF_BOOT_APP0
    ELSE IF includes(name, P_littlefs) \/ includes(name, P_spiffs) \/ includes(name, P_fs)
         THEN OFF_FILESYSTEM
    ELSE OFF_DEFAULT

\* a plausible slip: the generic 'fs' pattern left out of the filesystem rule
getFlashOffset_NoFsPattern(filename) ==
    LET name == toLowerCase(filename) IN
    IF includes(name, P_bootloader) THEN OFF_BOOTLOADER
    ELSE IF includes(name, P_partition) THEN OFF_PARTITION
    ELSE IF includes(name, P_boot_app0) THEN OFF_BOOT_APP0
    ELSE IF includes(name, P_firmware) \/ includes(name, P_app) THEN OFF_FIRMWARE
    ELSE IF includes(name, P_littlefs) \/ includes(name, P_spiffs) THEN OFF_FILESYSTEM
    ELSE OFF_DEFAULT

getFlashOffset(filename) ==
    LET name == toLowerCase(filename) IN
    IF includes(name, P_bootloader) THEN OFF_BOOTLOADER
    ELSE IF includes(name, P_partition) THEN OFF_PARTITION
    ELSE IF includes(name, P_boot_app0) THEN OFF_BOOT_APP0
    ELSE IF includes(name, P_firmware) \/ includes(name, P_app) THEN OFF_FIRMWARE
    ELSE IF includes(name, P_littlefs) \/ includes(name, P_spiffs) \/ includes(name, P_fs)
         THEN OFF_FILESYSTEM
    ELSE OFF_DEFAULT

-----------------------------------------------------------------------------
(* Insertion-ordered maps (JavaScript objects with string keys) *)

\* Object.keys(m)
Keys(m) == [i \in 1..Len(m) |-> m[i].name]

HasKey(m, k) == \E i \in 1..Len(m) : m[i].name = k

\* m[k], for a key that is present
Get(m, k) == m[CHOOSE i \in 1..Len(m) : m[i].name = k].data

\* m[k] = v: an existing key keeps its position, a new key goes last
Put(m, k, v) ==
    IF HasKey(m, k)
    THEN [i \in 1..Len(m) |-> IF m[i].name = k THEN [name |-> k, data |-> v] ELSE m[i]]
    ELSE Append(m, [name |-> k, data |-> v])

\* delete m[k]
Delete(m, k) == SelectSeq(m, LAMBDA e : e.name # k)

-----------------------------------------------------------------------------
(* FileHandler.extractZipFile *)

\* name.split('/').pop(): the part after the last '/'
LastComponent(path) ==
    LET slashes == {i \in 1..Len(path) : path[i] = "/"}
        last == IF slashes = {} THEN 0
                ELSE CHOOSE i \in slashes : \A j \in slashes : j <= i
    IN SubSeq(path, last + 1, Len(path))

\* the filter of lines 18-20
IsBinEntry(path) == endsWith(path, P_bin) /\ ~includes(path, P_macosx)

RECURSIVE ExtractInto(_, _)
ExtractInto(files, entries) ==
    IF entries = <<>> THEN files
    ELSE LET e == Head(entries) IN
         ExtractInto(IF IsBinEntry(e.path)
                     THEN Put(files, LastComponent(e.path), e.data)
                     ELSE files,
                     Tail(entries))

\* zip: the archive's entries in archive order, <<[path, data]>>
extractZipFile(zip) == ExtractInto(<<>>, zip)

-----------------------------------------------------------------------------
(* FileHandler.validateFirmwareFiles *)

IsFirmwareName(name) ==
    includes(toLowerCase(name), P_firmware) \/ includes(toLowerCase(name), P_app)

validateFirmwareFiles(files) ==
    IF Len(files) = 0 THEN [isValid |-> FALSE, message |-> "No .bin files found"]
    ELSE IF ~(\E i \in 1..Len(files) : IsFirmwareName(files[i].name))
    THEN [isValid |-> FALSE, message |-> "No firmware.bin or app binary found"]
    ELSE [isValid |-> TRUE, message |-> "Found firmware file(s)"]

-----------------------------------------------------------------------------
(* FileHandler.prepareFirmwareFiles *)

\* Array.prototype.sort with (a, b) => a.offset - b.offset is stable:
\* e goes after every element whose offset is not greater
InsertByOffset(s, e) ==
    LET firstGreater == IF \E i \in 1..Len(s) : s[i].offset > e.offset
                        THEN CHOOSE i \in 1..Len(s) :
                                 /\ s[i].offset > e.offset
                                 /\ \A j \in 1..(i - 1) : s[j].offset <= e.offset
                        ELSE Len(s) + 1
    IN SubSeq(s, 1, firstGreater - 1) \o <<e>> \o SubSeq(s, firstGreater, Len(s))

RECURSIVE SortByOffset(_)
SortByOffset(s) ==
    IF s = <<>> THEN <<>>
    ELSE InsertByOffset(SortByOffset(SubSeq(s, 1, Len(s) - 1)), s[Len(s)])

\* a plausible slip: the prepared list returned without the sort
prepareFirmwareFiles_NoSort(files) ==
    [i \in 1..Len(files) |->
        [filename |-> files[i].name,
         offset |-> getFlashOffset(files[i].name),
         data |-> files[i].data]]

prepareFirmwareFiles(files) ==
    SortByOffset([i \in 1..Len(files) |->
        [filename |-> files[i].name,
         offset |-> getFlashOffset(files[i].name),
         data |-> files[i].data]])

-----------------------------------------------------------------------------
(* App.validateOffset *)

HexDigits == <<"0","1","2","3","4","5","6","7","8","9","a","b","c","d","e","f">>

IsHexDigit(c) == \E i \in 1..16 : HexDigits[i] = LowerChar(c)

HexValue(c) == (CHOOSE i \in 1..16 : HexDigits[i] = LowerChar(c)) - 1

\* Number.prototype.toString(16), for n >= 0
RECURSIVE toString16(_)
toString16(n) ==
    IF n < 16 THEN <<HexDigits[n + 1]>>
    ELSE toString16(n \div 16) \o <<HexDigits[(n % 16) + 1]>>

\* /^0x[0-9A-Fa-f]+$/.test(value)
hexPattern(value) ==
    /\ Len(value) >= 3
    /\ value[1] = "0"
    /\ value[2] = "x"
    /\ \A i \in 3..Len(value) : IsHexDigit(value[i])

\* parseInt(value, 16) of a value that matches hexPattern
RECURSIVE HexDigitsValue(_)
HexDigitsValue(ds) ==
    IF ds = <<>> THEN 0
    ELSE 16 * HexDigitsValue(SubSeq(ds, 1, Len(ds) - 1)) + HexValue(ds[Len(ds)])

parseInt16(value) == HexDigitsValue(SubSeq(value, 3, Len(value)))

\* String.prototype.trim
RECURSIVE trim(_)
trim(s) ==
    IF s = <<>> THEN s
    ELSE IF Head(s) = " " THEN trim(Tail(s))
    ELSE IF s[Len(s)] = " " THEN trim(SubSeq(s, 1, Len(s) - 1))
    ELSE s

MAX_OFFSET == 4194304     \* 0x400000
SECTOR == 4096            \* 0x1000

\* a plausible slip: the alignment test placed before the duplicate test
validateOffset_AlignFirst(offsets, filename, value) ==
    IF value = <<>> \/ trim(value) = <<>>
    THEN [isValid |-> TRUE, type |-> "none", message |-> "", conflict |-> <<>>]
    ELSE IF ~hexPattern(value)
    THEN [isValid |-> FALSE, type |-> "error", message |-> "Invalid format", conflict |-> <<>>]
    ELSE LET offset == parseInt16(value)
             dups == {i \in 1..Len(offsets) :
                         offsets[i].name # filename /\ offsets[i].data = offset}
         IN IF offset < 0 \/ offset > MAX_OFFSET
            THEN [isValid |-> FALSE, type |-> "error", message |-> "Offset out of range",
                  conflict |-> <<>>]
            ELSE IF offset % SECTOR # 0
            THEN [isValid |-> TRUE, type |-> "warning", message |-> "Not aligned",
                  conflict |-> <<>>]
            ELSE IF dups # {}
            THEN [isValid |-> FALSE, type |-> "error", message |-> "Duplicate offset",
                  conflict |-> offsets[CHOOSE i \in dups : \A j \in dups : i <= j].name]
            ELSE [isValid |-> TRUE, type |-> "success", message |-> "", conflict |-> <<>>]

\* offsets is this.state.customOffsets
validateOffset(offsets, filename, value) ==
    IF value = <<>> \/ trim(value) = <<>>
    THEN [isValid |-> TRUE, type |-> "none", message |-> "", conflict |-> <<>>]
    ELSE IF ~hexPattern(value)
    THEN [isValid |-> FALSE, type |-> "error", message |-> "Invalid format", conflict |-> <<>>]
    ELSE LET offset == parseInt16(value)
             dups == {i \in 1..Len(offsets) :
                         offsets[i].name # filename /\ offsets[i].data = offset}
         IN IF offset < 0 \/ offset > MAX_OFFSET
            THEN [isValid |-> FALSE, type |-> "error", message |-> "Offset out of range",
                  conflict |-> <<>>]
            ELSE IF dups # {}
            THEN [isValid |-> FALSE, type |-> "error", message |-> "Duplicate offset",
                  conflict |-> offsets[CHOOSE i \in dups : \A j \in dups : i <= j].name]
            ELSE IF offset % SECTOR # 0
            THEN [isValid |-> TRUE, type |-> "warning", message |-> "Not aligned",
                  conflict |-> <<>>]
            ELSE [isValid |-> TRUE, type |-> "success", message |-> "", conflict |-> <<>>]

-----------------------------------------------------------------------------
(* State of the application *)

MaxConn == 2          \* onConnect invocations that may be in flight together
MaxDisc == 2          \* onDisconnect invocations that may be in flight together
MaxFlash == 2         \* onFlash invocations that may be in flight together
MaxTransports == 2    \* Transport objects constructed in one run

ConnSlots == 1..MaxConn
DiscSlots == 1..MaxDisc
FlashSlots == 1..MaxFlash

\* window.esptooljs: initApp calls App.init only once it is set
esptooljs == TRUE

ConnIdle == [pc |-> "idle", loader |-> 0]
DiscIdle == [pc |-> "idle", t |-> 0]
FlashIdle == [pc |-> "idle", plan |-> <<>>, i |-> 0, totalSize |-> 0, writtenSize |-> 0,
              loader |-> 0, etotal |-> 0, ewritten |-> 0]

NoProgress == [n |-> -1, d |-> -1, file |-> 0]
NoError == [name |-> "none", message |-> "", file |-> <<>>]

\* One flashFirmware call as its collaborators see it: the plan it was given, the
\* engine's writeFlash and hardReset calls, the last progress callback, the log
\* callbacks, the error it threw; inLength: no report so far gave more bytes
\* written than the image being written holds; reset: how the hardReset call
\* ended ("none": not called); bar: the width App.updateProgress gave the progress
\* bar, as a fraction n/d of the full width (0 from showProgress, main.js 190)
EngInit == [plan |-> <<>>, writes |-> <<>>, resets |-> 0, reset |-> "none",
            progress |-> NoProgress, bar |-> [n |-> 0, d |-> 1],
            log |-> <<>>, thrown |-> NoError, inLength |-> TRUE]

\* this.state.firmwareFiles = null
NoFiles == [isNull |-> TRUE, files |-> <<>>]

NoCall == [op |-> "none", arg |-> <<>>, ret |-> <<>>]

Ev(kind, who, note) == [kind |-> kind, who |-> who, note |-> note]

\* a plausible slip: the flash button is not held disabled while a flash runs
updateUI_IgnoresFlashing(connected, files, isFlashing) ==
    [connect |-> connected,
     disconnect |-> ~connected,
     flash |-> (~connected \/ files.isNull)]

\* App.updateUI: the three disabled flags
updateUI(connected, files, isFlashing) ==
    [connect |-> connected,
     disconnect |-> ~connected,
     flash |-> (~connected \/ files.isNull \/ isFlashing)]

fileVars == <<firmwareFiles, customOffsets, advancedMode, table>>
flasherVars == <<fDevice, fTransport, fChip, fEsploader, fConnected>>
flashVars == <<fl, eng, flashing>>

InitApp ==
    /\ call = NoCall
    /\ firmwareFiles = NoFiles
    /\ appConnected = FALSE
    /\ flashing = FALSE
    /\ customOffsets = <<>>
    /\ advancedMode = FALSE
    /\ table = <<>>
    /\ btn = updateUI(FALSE, NoFiles, FALSE)
    /\ fDevice = Null
    /\ fTransport = Null
    /\ fChip = Null
    /\ fEsploader = Null
    /\ fConnected = FALSE
    /\ transports = <<>>
    /\ detected = {}
    /\ conn = [i \in ConnSlots |-> ConnIdle]
    /\ disc = [j \in DiscSlots |-> DiscIdle]
    /\ fl = [k \in FlashSlots |-> FlashIdle]
    /\ eng = EngInit
    /\ hasSerial \in BOOLEAN
    /\ ev = Ev("init", 0, "")

\* the slot a new invocation takes: the lowest idle one
FreeSlot(slots, i) ==
    /\ slots[i].pc = "idle"
    /\ \A j \in DOMAIN slots : j < i => slots[j].pc # "idle"

-----------------------------------------------------------------------------
(* Flasher.connectDevice and App.onConnect *)

\* a plausible slip: the catch block rethrows and leaves this.connected as it was
ConnectCatch_Keep(connectedBefore) == connectedBefore

\* the catch block of connectDevice (lines 65-68): this.connected after it
ConnectCatch(connectedBefore) == FALSE

\* connectDevice throws; onConnect's catch runs in the same microtask drain.
\* connectedNow is this.connected when the catch block is entered.
ConnectFails(i, connectedNow, step) ==
    /\ fConnected' = ConnectCatch(connectedNow)
    /\ appConnected' = FALSE
    /\ btn' = updateUI(FALSE, firmwareFiles, flashing)
    /\ conn' = [conn EXCEPT ![i] = ConnIdle]
    /\ ev' = Ev("connectFailed", i, step)

\* Transport objects still to be constructed by invocations already in flight
PendingTransports == Cardinality({i \in ConnSlots : conn[i].pc \in {"requestPort", "delay"}})

\* click on connectBtn: onConnect up to `await navigator.serial.requestPort()`
OnConnectClick(i) ==
    /\ ~btn.connect
    /\ FreeSlot(conn, i)
    /\ Len(transports) + PendingTransports < MaxTransports
    /\ IF ~hasSerial
       THEN /\ ConnectFails(i, fConnected, "serial")
            /\ UNCHANGED <<fDevice, fTransport, fChip, fEsploader, transports, detected>>
       ELSE /\ conn' = [conn EXCEPT ![i] = [pc |-> "requestPort", loader |-> 0]]
            /\ ev' = Ev("connectClick", i, "")
            /\ UNCHANGED <<flasherVars, appConnected, btn, transports, detected>>
    /\ UNCHANGED <<call, fileVars, flashVars, disc, hasSerial>>

\* the user picks a port: up to `await new Promise(setTimeout 100)`
RequestPortResolves(i) ==
    /\ conn[i].pc = "requestPort"
    /\ IF ~esptooljs
       THEN ConnectFails(i, fConnected, "esptooljs")
       ELSE /\ conn' = [conn EXCEPT ![i].pc = "delay"]
            /\ ev' = Ev("portPicked", i, "")
            /\ UNCHANGED <<fConnected, appConnected, btn>>
    /\ UNCHANGED <<call, fileVars, flashVars, disc, hasSerial,
                   fDevice, fTransport, fChip, fEsploader, transports, detected>>

\* the user dismisses the port picker
RequestPortRejects(i) ==
    /\ conn[i].pc = "requestPort"
    /\ ConnectFails(i, fConnected, "requestPort")
    /\ UNCHANGED <<call, fileVars, flashVars, disc, hasSerial,
                   fDevice, fTransport, fChip, fEsploader, transports, detected>>

\* the 100 ms timer fires: lines 35-53, up to `await this.esploader.main()`
CreateTransport(i) ==
    /\ conn[i].pc = "delay"
    /\ LET t == Len(transports) + 1 IN
        /\ transports' = Append(transports, "created")
        /\ fTransport' = t
        /\ fDevice' = t
        /\ fEsploader' = t
        /\ conn' = [conn EXCEPT ![i] = [pc |-> "main", loader |-> t]]
        /\ ev' = Ev("transportCreated", i, "")
    /\ UNCHANGED <<call, fileVars, flashVars, disc, hasSerial,
                   fChip, fConnected, appConnected, btn, detected>>

\* `this.esploader.chip.<method>(this.esploader)` can be evaluated
ChipCallable == fEsploader # Null /\ fEsploader \in detected

\* main() resolves: the port is open and the loader's chip is set;
\* then up to `await this.esploader.chip.readMac(this.esploader)`
MainResolves(i) ==
    /\ conn[i].pc = "main"
    /\ transports[conn[i].loader] # "closed"
    /\ transports' = [transports EXCEPT ![conn[i].loader] = "open"]
    /\ detected' = detected \cup {conn[i].loader}
    /\ IF fEsploader # Null /\ fEsploader \in detected'
       THEN /\ conn' = [conn EXCEPT ![i].pc = "readMac"]
            /\ ev' = Ev("handshakeDone", i, "")
            /\ UNCHANGED <<fConnected, appConnected, btn>>
       ELSE ConnectFails(i, fConnected, "readMac:TypeError")
    /\ UNCHANGED <<call, fileVars, flashVars, disc, hasSerial,
                   fDevice, fTransport, fChip, fEsploader>>

\* main() rejects, before or after it has opened the port
MainRejects(i) ==
    /\ conn[i].pc = "main"
    /\ \E opened \in BOOLEAN :
           transports' = [transports EXCEPT ![conn[i].loader] =
                             IF opened /\ @ = "created" THEN "open" ELSE @]
    /\ ConnectFails(i, fConnected, "main")
    /\ UNCHANGED <<call, fileVars, flashVars, disc, hasSerial,
                   fDevice, fTransport, fChip, fEsploader, detected>>

\* readMac resolves: up to `await this.esploader.chip.getChipFeatures(this.esploader)`
ReadMacResolves(i) ==
    /\ conn[i].pc = "readMac"
    /\ IF ChipCallable
       THEN /\ conn' = [conn EXCEPT ![i].pc = "features"]
            /\ ev' = Ev("macRead", i, "")
            /\ UNCHANGED <<fConnected, appConnected, btn>>
       ELSE ConnectFails(i, fConnected, "getChipFeatures:TypeError")
    /\ UNCHANGED <<call, fileVars, flashVars, disc, hasSerial,
                   fDevice, fTransport, fChip, fEsploader, transports, detected>>

ReadMacRejects(i) ==
    /\ conn[i].pc = "readMac"
    /\ ConnectFails(i, fConnected, "readMac")
    /\ UNCHANGED <<call, fileVars, flashVars, disc, hasSerial,
                   fDevice, fTransport, fChip, fEsploader, transports, detected>>

\* getChipFeatures resolves: lines 62-64, then onConnect lines 123-134
FeaturesResolves(i) ==
    /\ conn[i].pc = "features"
    /\ IF fEsploader = Null
       THEN \* this.connected = true, then this.esploader.chip throws a TypeError
            /\ ConnectFails(i, TRUE, "chip:TypeError")
            /\ UNCHANGED fChip
       ELSE /\ fConnected' = TRUE
            /\ fChip' = IF fEsploader \in detected THEN fEsploader ELSE Undefined
            /\ appConnected' = TRUE
            /\ btn' = updateUI(TRUE, firmwareFiles, flashing)
            /\ conn' = [conn EXCEPT ![i] = ConnIdle]
            /\ ev' = Ev("connected", i, "")
    /\ UNCHANGED <<call, fileVars, flashVars, disc, hasSerial,
                   fDevice, fTransport, fEsploader, transports, detected>>

FeaturesRejects(i) ==
    /\ conn[i].pc = "features"
    /\ ConnectFails(i, fConnected, "getChipFeatures")
    /\ UNCHANGED <<call, fileVars, flashVars, disc, hasSerial,
                   fDevice, fTransport, fChip, fEsploader, transports, detected>>

-----------------------------------------------------------------------------
(* Flasher.disconnectDevice and App.onDisconnect *)

\* a plausible slip: the catch block of lines 85-93 only logs
DisconnectEnds_CatchOnlyLogs(j, how) ==
    /\ IF how \in {"sync", "released"}
       THEN /\ fDevice' = Null
            /\ fTransport' = Null
            /\ fChip' = Null
            /\ fEsploader' = Null
            /\ fConnected' = FALSE
       ELSE UNCHANGED flasherVars
    /\ appConnected' = FALSE
    /\ btn' = updateUI(FALSE, firmwareFiles, flashing)
    /\ disc' = [disc EXCEPT ![j] = DiscIdle]
    /\ ev' = Ev("disconnected", j, how)

\* disconnectDevice ends (lines 80-84 or 88-92); onDisconnect lines 148-152
DisconnectEnds(j, how) ==
    /\ fDevice' = Null
    /\ fTransport' = Null
    /\ fChip' = Null
    /\ fEsploader' = Null
    /\ fConnected' = FALSE
    /\ appConnected' = FALSE
    /\ btn' = updateUI(FALSE, firmwareFiles, flashing)
    /\ disc' = [disc EXCEPT ![j] = DiscIdle]
    /\ ev' = Ev("disconnected", j, how)

\* Flasher.disconnectDevice is entered: up to `await this.transport.disconnect()`
DisconnectDeviceCall(j) ==
    /\ FreeSlot(disc, j)
    /\ IF fTransport = Null
       THEN DisconnectEnds(j, "sync")
       ELSE /\ disc' = [disc EXCEPT ![j] = [pc |-> "disconnect", t |-> fTransport]]
            /\ ev' = Ev("disconnectCall", j, "")
            /\ UNCHANGED <<flasherVars, appConnected, btn>>
    /\ UNCHANGED <<call, fileVars, flashVars, conn, hasSerial, transports, detected>>

\* click on disconnectBtn
OnDisconnectClick(j) ==
    /\ ~btn.disconnect
    /\ DisconnectDeviceCall(j)

\* transport.disconnect() resolves: the port is closed;
\* then up to `await this.transport.waitForUnlock(1500)`
TransportDisconnectResolves(j) ==
    /\ disc[j].pc = "disconnect"
    /\ transports' = [transports EXCEPT ![disc[j].t] = "closed"]
    /\ IF fTransport = Null
       THEN DisconnectEnds(j, "waitForUnlock:TypeError")
       ELSE /\ disc' = [disc EXCEPT ![j] = [pc |-> "waitForUnlock", t |-> fTransport]]
            /\ ev' = Ev("transportClosed", j, "")
            /\ UNCHANGED <<flasherVars, appConnected, btn>>
    /\ UNCHANGED <<call, fileVars, flashVars, conn, hasSerial, detected>>

TransportDisconnectRejects(j) ==
    /\ disc[j].pc = "disconnect"
    /\ DisconnectEnds(j, "disconnect:rejected")
    /\ UNCHANGED <<call, fileVars, flashVars, conn, hasSerial, transports, detected>>

WaitForUnlockResolves(j) ==
    /\ disc[j].pc = "waitForUnlock"
    /\ DisconnectEnds(j, "released")
    /\ UNCHANGED <<call, fileVars, flashVars, conn, hasSerial, transports, detected>>

WaitForUnlockRejects(j) ==
    /\ disc[j].pc = "waitForUnlock"
    /\ DisconnectEnds(j, "waitForUnlock:rejected")
    /\ UNCHANGED <<call, fileVars, flashVars, conn, hasSerial, transports, detected>>

-----------------------------------------------------------------------------
(* App.onZipUpload *)

\* input: [kind, entries]; kind "none" (no file chosen), "corrupt" (JSZip.loadAsync
\* throws) or "zip" (the archive's entries, <<[path, data]>>).
\* The handler reads and writes no state before its last await, so it is one step.

\* a plausible slip: the catch block logs the error and leaves the set loaded before
UploadResult_KeepsOld(input) ==
    IF input.kind = "none" THEN NoFiles
    ELSE IF input.kind = "corrupt" THEN firmwareFiles
    ELSE LET files == extractZipFile(input.entries) IN
         IF validateFirmwareFiles(files).isValid
         THEN [isNull |-> FALSE, files |-> files]
         ELSE firmwareFiles

UploadResult(input) ==
    IF input.kind = "none" \/ input.kind = "corrupt" THEN NoFiles
    ELSE LET files == extractZipFile(input.entries) IN
         IF validateFirmwareFiles(files).isValid
         THEN [isNull |-> FALSE, files |-> files]
         ELSE NoFiles

\* App.renderOffsetTable: one row per loaded file, in the order of the map; no
\* row when no file is loaded (the "No firmware files loaded" message)
renderOffsetTable(files) ==
    IF files.isNull THEN <<>> ELSE [i \in 1..Len(files.files) |-> files.files[i].name]

\* what onZipUpload logs at line 100 or 108 (nothing when no file was chosen)
UploadMessage(input) ==
    IF input.kind = "none" THEN ""
    ELSE IF input.kind = "corrupt" THEN "Failed to extract zip file"
    ELSE validateFirmwareFiles(extractZipFile(input.entries)).message

\* call records the image map given to validateFirmwareFiles and the message logged
\* a plausible slip: an upload drops the overrides of files that are not in the
\* newly loaded set
OnZipUpload_DropsStale(input) ==
    /\ firmwareFiles' = UploadResult(input)
    /\ btn' = updateUI(appConnected, firmwareFiles', flashing)
    /\ ev' = Ev("upload", 0, IF firmwareFiles'.isNull THEN "rejected" ELSE "loaded")
    /\ call' = [op |-> "onZipUpload",
                arg |-> IF input.kind = "zip" THEN extractZipFile(input.entries) ELSE <<>>,
                ret |-> <<input.kind, UploadMessage(input)>>]
    /\ table' = IF ~firmwareFiles'.isNull /\ advancedMode
                THEN renderOffsetTable(firmwareFiles')
                ELSE table
    /\ customOffsets' =
           SelectSeq(customOffsets,
                     LAMBDA o : /\ ~firmwareFiles'.isNull
                                /\ \E i \in 1..Len(firmwareFiles'.files) :
                                       firmwareFiles'.files[i].name = o.name)
    /\ UNCHANGED <<advancedMode, flasherVars, appConnected, flashVars,
                   conn, disc, hasSerial, transports, detected>>

OnZipUpload(input) ==
    /\ firmwareFiles' = UploadResult(input)
    /\ btn' = updateUI(appConnected, firmwareFiles', flashing)
    /\ ev' = Ev("upload", 0, IF firmwareFiles'.isNull THEN "rejected" ELSE "loaded")
    /\ call' = [op |-> "onZipUpload",
                arg |-> IF input.kind = "zip" THEN extractZipFile(input.entries) ELSE <<>>,
                ret |-> <<input.kind, UploadMessage(input)>>]
    /\ table' = IF ~firmwareFiles'.isNull /\ advancedMode
                THEN renderOffsetTable(firmwareFiles')
                ELSE table
    /\ UNCHANGED <<customOffsets, advancedMode, flasherVars, appConnected, flashVars,
                   conn, disc, hasSerial, transports, detected>>

-----------------------------------------------------------------------------
(* App: advanced mode and the offset editor *)

editFrame ==
    <<firmwareFiles, flasherVars, appConnected, flashVars, btn, conn, disc, hasSerial,
      transports, detected>>

\* the offset inputs can be used: the panel is shown (lines 266, 269) and the
\* table has a row for the file
RowShown(filename) ==
    /\ advancedMode
    /\ \E i \in 1..Len(table) : table[i] = filename

\* change event of the advanced-mode checkbox
OnAdvancedModeToggle(checked) ==
    /\ advancedMode' = checked
    /\ table' = IF checked THEN renderOffsetTable(firmwareFiles) ELSE table
    /\ ev' = Ev("advancedMode", 0, IF checked THEN "on" ELSE "off")
    /\ call' = NoCall
    /\ UNCHANGED customOffsets
    /\ UNCHANGED editFrame

\* input event of a row's offset input, raw being the text in it: the validation
\* is displayed (class and message of the row), nothing is committed
OnOffsetInput(filename, raw) ==
    /\ RowShown(filename)
    /\ call' = [op |-> "onOffsetInput", arg |-> <<filename, trim(raw)>>,
                ret |-> validateOffset(customOffsets, filename, trim(raw))]
    /\ ev' = Ev("offsetInput", 0, call'.ret.type)
    /\ UNCHANGED <<customOffsets, advancedMode, table>>
    /\ UNCHANGED editFrame

\* a plausible slip: a value of the right format is committed whatever the
\* validation says
BlurResult_FormatOnly(offsets, filename, raw) ==
    LET value == trim(raw)
    IN IF value = <<>> THEN Delete(offsets, filename)
       ELSE IF hexPattern(value) THEN Put(offsets, filename, parseInt16(value))
       ELSE offsets

\* the committed overrides after a blur (lines 422-432)
BlurResult(offsets, filename, raw) ==
    LET value == trim(raw)
        validation == validateOffset(offsets, filename, value)
    IN IF value = <<>> THEN Delete(offsets, filename)
       ELSE IF validation.isValid THEN Put(offsets, filename, parseInt16(value))
       ELSE offsets

\* blur event of a row's offset input
OnOffsetBlur(filename, raw) ==
    /\ RowShown(filename)
    /\ customOffsets' = BlurResult(customOffsets, filename, raw)
    /\ ev' = Ev("offsetBlur", 0,
                IF trim(raw) = <<>> THEN "cleared"
                ELSE IF validateOffset(customOffsets, filename, trim(raw)).isValid
                THEN "committed" ELSE "rejected")
    /\ call' = [op |-> "onOffsetBlur", arg |-> <<filename, raw>>,
                ret |-> validateOffset(customOffsets, filename, trim(raw))]
    /\ UNCHANGED <<advancedMode, table>>
    /\ UNCHANGED editFrame

\* click on a row's Reset button
OnResetOffset(filename) ==
    /\ RowShown(filename)
    /\ customOffsets' = Delete(customOffsets, filename)
    /\ table' = renderOffsetTable(firmwareFiles)
    /\ ev' = Ev("resetOffset", 0, "")
    /\ call' = NoCall
    /\ UNCHANGED advancedMode
    /\ UNCHANGED editFrame

\* click on resetAllOffsetsBtn
OnResetAllOffsets ==
    /\ customOffsets' = <<>>
    /\ table' = renderOffsetTable(firmwareFiles)
    /\ ev' = Ev("resetAll", 0, "")
    /\ call' = NoCall
    /\ UNCHANGED advancedMode
    /\ UNCHANGED editFrame

-----------------------------------------------------------------------------
(* Flasher.flashFirmware and App.onFlash *)

EngineOverhead == 16  \* bytes by which the engine's own total may exceed the image's length

\* App.updateProgress: Math.min(100, Math.max(0, percent)), percent being the
\* fraction p.n / p.d (times 100); 0/0 is NaN, which Math.max and Math.min return
\* as it is, and n/0 with n > 0 is Infinity
updateProgress(p) ==
    IF p.d = 0 /\ p.n = 0 THEN [n |-> 0, d |-> 0]
    ELSE IF p.d = 0 THEN [n |-> 1, d |-> 1]
    ELSE IF p.n < 0 THEN [n |-> 0, d |-> 1]
    ELSE IF p.n > p.d THEN [n |-> 1, d |-> 1]
    ELSE [n |-> p.n, d |-> p.d]

\* the totals the engine may announce for an image of len bytes (it transfers the
\* image compressed: compress: true)
EngineTotals(len) == {len \div 2, len, len + EngineOverhead}

\* the `written` values the engine reports against a total
ReportPoints(total) == {0, total \div 2, total}

\* arrayBufferToBinaryString: one character per byte
arrayBufferToBinaryString(buffer) == [id |-> buffer.id, len |-> buffer.len]

Log(l, type, text, file) == Append(l, [type |-> type, text |-> text, file |-> file])

RECURSIVE SumLen(_)
SumLen(plan) ==
    IF plan = <<>> THEN 0
    ELSE arrayBufferToBinaryString(Head(plan).data).len + SumLen(Tail(plan))

\* a plausible slip: no finally block, the flag is cleared on success only
FlashEnds_NoFinally(k, e, result) ==
    /\ flashing' = IF result = "ok" THEN FALSE ELSE flashing
    /\ btn' = updateUI(appConnected, firmwareFiles, flashing')
    /\ fl' = [fl EXCEPT ![k] = FlashIdle]
    /\ eng' = e
    /\ ev' = Ev("flashDone", k, result)

\* onFlash's catch and finally (lines 216-221) after flashFirmware settled;
\* e is what the engine and the callbacks have observed by then
FlashEnds(k, e, result) ==
    /\ flashing' = FALSE
    /\ btn' = updateUI(appConnected, firmwareFiles, FALSE)
    /\ fl' = [fl EXCEPT ![k] = FlashIdle]
    /\ eng' = e
    /\ ev' = Ev("flashDone", k, result)

\* flashFirmware's catches (lines 197-199, 223-225): the error is logged and rethrown
\* as it is; the engine is given data and address only, so its error names no file
FlashThrows(k, e, f, inLoop, error) ==
    LET e1 == IF inLoop
              THEN [e EXCEPT !.log = Log(@, "error", "Failed to flash", f.plan[f.i].filename)]
              ELSE e
        e2 == [e1 EXCEPT !.log = Log(@, "error", "Flashing failed", <<>>),
                         !.thrown = error]
    IN FlashEnds(k, e2, "error")

\* lines 165-193 for entry f.i: up to `await this.esploader.writeFlash(...)`
BeginEntry(k, e, f) ==
    LET e1 == [e EXCEPT !.log = Log(@, "info", "Flashing", f.plan[f.i].filename)] IN
    IF fEsploader = Null
    THEN FlashThrows(k, e1, f, TRUE,
                     [name |-> "TypeError", message |-> "esploader is null", file |-> <<>>])
    ELSE \E total \in EngineTotals(arrayBufferToBinaryString(f.plan[f.i].data).len) :
            /\ fl' = [fl EXCEPT ![k] = [f EXCEPT !.pc = "write", !.loader = fEsploader,
                                                  !.etotal = total, !.ewritten = 0]]
            /\ eng' = [e1 EXCEPT !.writes = Append(@,
                           [idx |-> f.i, loader |-> fEsploader, result |-> "pending",
                            address |-> f.plan[f.i].offset,
                            data |-> arrayBufferToBinaryString(f.plan[f.i].data)])]
            /\ flashing' = TRUE
            /\ btn' = updateUI(appConnected, firmwareFiles, TRUE)
            /\ ev' = Ev("writeCalled", k, "")

\* lines 203-206: up to the `await` of the 100 ms timer
AfterLastEntry(k, e, f) ==
    /\ fl' = [fl EXCEPT ![k] = [f EXCEPT !.pc = "delay"]]
    /\ eng' = [e EXCEPT !.log = Log(@, "success", "Firmware flashed successfully!", <<>>)]
    /\ UNCHANGED <<flashing, btn>>
    /\ ev' = Ev("writesDone", k, "")

\* lines 218-222, then onFlash line 215 and its finally
FlashFinishes(k, e) ==
    FlashEnds(k, [e EXCEPT !.log = Log(@, "success", "Firmware update finished!", <<>>),
                           !.progress = [n |-> 100, d |-> 100, file |-> 0],
                           !.bar = updateProgress([n |-> 100, d |-> 100])],
              "ok")

\* the flash-time validation of the committed overrides (lines 171-183)
OverridesHaveErrors ==
    \E i \in 1..Len(customOffsets) :
        ~validateOffset(customOffsets, customOffsets[i].name,
                        <<"0", "x">> \o toString16(customOffsets[i].data)).isValid

\* a plausible slip: the overrides are used whether or not advanced mode is on
UseCustomOffsets_IgnoresMode == Len(customOffsets) > 0

UseCustomOffsets == advancedMode /\ Len(customOffsets) > 0

\* the log lines of lines 128-153
RECURSIVE PlanLines(_, _)
PlanLines(l, plan) ==
    IF plan = <<>> THEN l
    ELSE PlanLines(Log(l, "info", "  - file @ offset", Head(plan).filename), Tail(plan))

PlanLog(plan) ==
    Log(PlanLines(Log(Log(<<>>, "info", "Preparing to flash firmware...", <<>>),
                      "info", "Flashing file(s)...", <<>>),
                  plan),
        "info", "Flash mode, Frequency", <<>>)

\* a plausible slip: the application's connected flag is not looked at
FlashRefusal_NoConnectedCheck ==
    IF firmwareFiles.isNull THEN "No firmware files loaded"
    ELSE IF UseCustomOffsets /\ OverridesHaveErrors THEN "Invalid custom offset"
    ELSE ""

\* onFlash's guards (lines 160-183): the message of the first one that returns,
\* "" when none does
FlashRefusal ==
    IF firmwareFiles.isNull THEN "No firmware files loaded"
    ELSE IF ~appConnected THEN "Device not connected"
    ELSE IF UseCustomOffsets /\ OverridesHaveErrors THEN "Invalid custom offset"
    ELSE ""

\* a plausible slip: the guard looks at the loader only
NotConnected_LoaderOnly == fEsploader = Null

\* flashFirmware's guard (line 116): !this.connected || !this.esploader
NotConnected == ~fConnected \/ fEsploader = Null

\* onFlash's try block (lines 185-213), and flashFirmware up to its first await
OnFlashTry(k) ==
    /\ FreeSlot(fl, k)
    /\ IF UseCustomOffsets
       THEN \* FileHandler has no prepareFirmwareFilesWithCustomOffsets: the call
            \* throws a TypeError inside onFlash's try
            FlashEnds(k, [EngInit EXCEPT !.thrown =
                              [name |-> "TypeError",
                               message |-> "prepareFirmwareFilesWithCustomOffsets is not a function",
                               file |-> <<>>]],
                      "error:prepare")
       ELSE IF NotConnected
       THEN \* flashFirmware lines 116-118, before its log and its try
            FlashEnds(k, [EngInit EXCEPT !.plan = prepareFirmwareFiles(firmwareFiles.files),
                                         !.thrown = [name |-> "Error",
                                                     message |-> "Device not connected",
                                                     file |-> <<>>]],
                      "error:Device not connected")
       ELSE LET plan == prepareFirmwareFiles(firmwareFiles.files)
                e == [EngInit EXCEPT !.plan = plan, !.log = PlanLog(plan)]
                f == [FlashIdle EXCEPT !.plan = plan, !.i = 1, !.totalSize = SumLen(plan)]
            IN IF Len(plan) = 0 THEN AfterLastEntry(k, e, f) ELSE BeginEntry(k, e, f)
    /\ UNCHANGED <<call, fileVars, flasherVars, appConnected, conn, disc, hasSerial,
                   transports, detected>>

\* onFlash: its guards, then its try block
OnFlashCall(k) ==
    IF FlashRefusal # ""
    THEN /\ FreeSlot(fl, k)
         /\ ev' = Ev("flashRefused", k, FlashRefusal)
         /\ UNCHANGED <<flashVars, btn>>
         /\ UNCHANGED <<call, fileVars, flasherVars, appConnected, conn, disc, hasSerial,
                        transports, detected>>
    ELSE OnFlashTry(k)

\* click on flashBtn (enabled)
OnFlashClick(k) == ~btn.flash /\ OnFlashCall(k)

\* the engine calls reportProgress(fileIndex, written, total) during a write
ReportProgress(k) ==
    /\ fl[k].pc = "write"
    /\ \E written \in ReportPoints(fl[k].etotal) :
           /\ written >= fl[k].ewritten
           /\ fl' = [fl EXCEPT ![k].ewritten = written]
           /\ eng' = [eng EXCEPT
                          !.progress = [n |-> fl[k].writtenSize + written,
                                        d |-> fl[k].totalSize, file |-> fl[k].i],
                          !.bar = updateProgress([n |-> fl[k].writtenSize + written,
                                                  d |-> fl[k].totalSize]),
                          !.inLength = @ /\ written <= fl[k].plan[fl[k].i].data.len]
    /\ ev' = Ev("progress", k, "")
    /\ UNCHANGED <<call, fileVars, flasherVars, appConnected, conn, disc, hasSerial,
                   transports, detected, flashing, btn>>

\* a plausible slip: the entry is written again instead of the next one
WriteResolves_Retry(k) ==
    /\ fl[k].pc = "write"
    /\ LET f == fl[k]
           e == [eng EXCEPT !.log = Log(@, "success", "Successfully flashed", f.plan[f.i].filename),
                            !.writes[Len(eng.writes)].result = "ok"]
           g == [f EXCEPT !.writtenSize = @ + arrayBufferToBinaryString(f.plan[f.i].data).len,
                          !.i = IF Len(eng.writes) < Len(f.plan) THEN @ ELSE @ + 1]
       IN IF g.i > Len(g.plan) THEN AfterLastEntry(k, e, g) ELSE BeginEntry(k, e, g)
    /\ UNCHANGED <<call, fileVars, flasherVars, appConnected, conn, disc, hasSerial,
                   transports, detected>>

\* a plausible slip: the running total of line 195 is not advanced
WriteResolves_NoRunningTotal(k) ==
    /\ fl[k].pc = "write"
    /\ LET f == fl[k]
           e == [eng EXCEPT !.log = Log(@, "success", "Successfully flashed", f.plan[f.i].filename),
                            !.writes[Len(eng.writes)].result = "ok"]
           g == [f EXCEPT !.i = @ + 1]
       IN IF g.i > Len(g.plan) THEN AfterLastEntry(k, e, g) ELSE BeginEntry(k, e, g)
    /\ UNCHANGED <<call, fileVars, flasherVars, appConnected, conn, disc, hasSerial,
                   transports, detected>>

\* writeFlash resolves: lines 195-196, then the next entry or the end of the loop
WriteResolves(k) ==
    /\ fl[k].pc = "write"
    /\ LET f == fl[k]
           e == [eng EXCEPT !.log = Log(@, "success", "Successfully flashed", f.plan[f.i].filename),
                            !.writes[Len(eng.writes)].result = "ok"]
           g == [f EXCEPT !.writtenSize = @ + arrayBufferToBinaryString(f.plan[f.i].data).len,
                          !.i = @ + 1]
       IN IF g.i > Len(g.plan) THEN AfterLastEntry(k, e, g) ELSE BeginEntry(k, e, g)
    /\ UNCHANGED <<call, fileVars, flasherVars, appConnected, conn, disc, hasSerial,
                   transports, detected>>

\* a plausible slip: the per-file catch logs the failure and does not rethrow it
WriteRejects_Swallowed(k) ==
    /\ fl[k].pc = "write"
    /\ LET f == fl[k]
           e == [eng EXCEPT !.log = Log(@, "error", "Failed to flash", f.plan[f.i].filename),
                            !.writes[Len(eng.writes)].result = "rejected"]
           g == [f EXCEPT !.i = @ + 1]
       IN IF g.i > Len(g.plan) THEN AfterLastEntry(k, e, g) ELSE BeginEntry(k, e, g)
    /\ UNCHANGED <<call, fileVars, flasherVars, appConnected, conn, disc, hasSerial,
                   transports, detected>>

\* writeFlash rejects with the engine's error
WriteRejects(k) ==
    /\ fl[k].pc = "write"
    /\ FlashThrows(k, [eng EXCEPT !.writes[Len(eng.writes)].result = "rejected"], fl[k], TRUE,
                   [name |-> "Error", message |-> "engine", file |-> <<>>])
    /\ UNCHANGED <<call, fileVars, flasherVars, appConnected, conn, disc, hasSerial,
                   transports, detected>>

\* the 100 ms timer fires: lines 208-212, up to `await this.esploader.hardReset()`
ResetCalled(k) ==
    /\ fl[k].pc = "delay"
    /\ LET e == [eng EXCEPT !.log = Log(@, "info", "Resetting device...", <<>>)] IN
        IF fEsploader = Null
        THEN \* the TypeError is caught at line 214
             FlashFinishes(k, [e EXCEPT !.log = Log(@, "warning", "Reset initiated", <<>>)])
        ELSE /\ fl' = [fl EXCEPT ![k].pc = "reset"]
             /\ eng' = [e EXCEPT !.resets = @ + 1, !.reset = "pending"]
             /\ UNCHANGED <<flashing, btn>>
             /\ ev' = Ev("resetCalled", k, "")
    /\ UNCHANGED <<call, fileVars, flasherVars, appConnected, conn, disc, hasSerial,
                   transports, detected>>

ResetResolves(k) ==
    /\ fl[k].pc = "reset"
    /\ FlashFinishes(k, [eng EXCEPT !.log = Log(@, "success", "Device reset complete!", <<>>),
                                    !.reset = "ok"])
    /\ UNCHANGED <<call, fileVars, flasherVars, appConnected, conn, disc, hasSerial,
                   transports, detected>>

\* a plausible slip: hardReset awaited outside a try block of its own
ResetRejects_Throws(k) ==
    /\ fl[k].pc = "reset"
    /\ FlashThrows(k, [eng EXCEPT !.reset = "rejected"], fl[k], FALSE,
                   [name |-> "Error", message |-> "engine", file |-> <<>>])
    /\ UNCHANGED <<call, fileVars, flasherVars, appConnected, conn, disc, hasSerial,
                   transports, detected>>

\* hardReset rejects: the catch of lines 214-216, then lines 218-222
ResetRejects(k) ==
    /\ fl[k].pc = "reset"
    /\ FlashFinishes(k, [eng EXCEPT !.log = Log(@, "warning", "Reset initiated", <<>>),
                                    !.reset = "rejected"])
    /\ UNCHANGED <<call, fileVars, flasherVars, appConnected, conn, disc, hasSerial,
                   transports, detected>>

-----------------------------------------------------------------------------
(* The archives the user uploads *)

Path_firmware == <<"b","u","i","l","d","/","f","i","r","m","w","a","r","e",".","b","i","n">>
Path_bootloader == <<"b","u","i","l","d","/","b","o","o","t","l","o","a","d","e","r",".","b","i","n">>
Path_partitions == <<"p","a","r","t","i","t","i","o","n","s",".","b","i","n">>
Path_app == <<"a","p","p",".","b","i","n">>
Path_random == <<"r","a","n","d","o","m",".","b","i","n">>
Path_readme == <<"R","E","A","D","M","E",".","t","x","t">>
Path_macosx == <<"_","_","M","A","C","O","S","X","/",".","_","f","i","r","m","w","a","r","e",".","b","i","n">>
Path_dir == <<"b","u","i","l","d","/">>

Image(id, len) == [id |-> id, len |-> len]
Entry(path, data) == [path |-> path, data |-> data]
Zip(entries) == [kind |-> "zip", entries |-> entries]

\* the standard layout, firmware first in the archive, with a directory entry,
\* a text file and a macOS resource fork
ZipStandard ==
    Zip(<<Entry(Path_dir, Image("dir", 0)),
          Entry(Path_firmware, Image("fw", 8192)),
          Entry(Path_readme, Image("txt", 10)),
          Entry(Path_macosx, Image("fork", 120)),
          Entry(Path_bootloader, Image("bl", 4096))>>)

\* a bootloader of 0x9000 bytes at 0x0000 reaches into the partition table at 0x8000
ZipOverlap ==
    Zip(<<Entry(Path_bootloader, Image("bigbl", 36864)),
          Entry(Path_partitions, Image("pt", 1024)),
          Entry(Path_firmware, Image("fw", 2048))>>)

\* two images that both resolve to 0x10000
ZipTwoApps ==
    Zip(<<Entry(Path_firmware, Image("fw", 8192)),
          Entry(Path_app, Image("app", 4096))>>)

\* a single, empty firmware image
ZipEmptyImage == Zip(<<Entry(Path_firmware, Image("empty", 0))>>)

\* no .bin entry survives the filter
ZipNoBin ==
    Zip(<<Entry(Path_readme, Image("txt", 10)),
          Entry(Path_macosx, Image("fork", 120))>>)

\* no firmware or app image
ZipNoPrimary == Zip(<<Entry(Path_random, Image("rnd", 4096))>>)

Uploads ==
    {[kind |-> "none", entries |-> <<>>], [kind |-> "corrupt", entries |-> <<>>],
     ZipStandard, ZipOverlap, ZipTwoApps, ZipEmptyImage, ZipNoBin, ZipNoPrimary}

-----------------------------------------------------------------------------
(* The texts typed into the offset inputs, and the editing steps *)

OffsetText ==
    [blank |-> <<>>,
     noPrefix |-> <<"1","0","0","0","0">>,
     notHex |-> <<"0","x","1","g">>,
     x1000 |-> <<"0","x","1","0","0","0">>,
     x10000 |-> <<"0","x","1","0","0","0","0">>,
     x10001 |-> <<"0","x","1","0","0","0","1">>,
     x500000 |-> <<"0","x","5","0","0","0","0","0">>,
     padded |-> <<" ","0","x","1","0","0","0","1"," ">>]

\* the values validateOffset is called with
OffsetValues ==
    {OffsetText.blank, OffsetText.noPrefix, OffsetText.notHex, OffsetText.x1000,
     OffsetText.x10000, OffsetText.x10001, OffsetText.x500000,
     <<" "," ">>,                               \* blank once trimmed
     <<"0","x">>,                               \* the prefix and no digit
     <<"0","X","1","0","0","0">>,               \* upper-case prefix
     <<"0","x","0">>,                           \* 0x0
     <<"0","x","1","A","B","C">>,               \* 0x1ABC, not aligned
     <<"0","x","4","0","0","0","0","0">>,       \* 0x400000, the highest offset
     <<"0","x","4","0","0","0","0","1">>}       \* 0x400001, out of range

\* the texts left in an offset input when it loses the focus
BlurValues ==
    {OffsetText.blank, OffsetText.x1000, OffsetText.padded, OffsetText.x500000,
     OffsetText.noPrefix}

\* the texts typed into an offset input
InputValues == {OffsetText.x10000, OffsetText.notHex}

\* the files whose rows are edited
EditorNames ==
    {LastComponent(Path_firmware), LastComponent(Path_bootloader),
     LastComponent(Path_partitions)}

EditStep ==
    \/ \E checked \in BOOLEAN : OnAdvancedModeToggle(checked)
    \/ \E filename \in EditorNames, raw \in InputValues : OnOffsetInput(filename, raw)
    \/ \E filename \in EditorNames, raw \in BlurValues : OnOffsetBlur(filename, raw)
    \/ \E filename \in EditorNames : OnResetOffset(filename)
    \/ OnResetAllOffsets

-----------------------------------------------------------------------------
(* The application: every handler, every interleaving *)

Init == InitApp

ConnectStep ==
    \E i \in ConnSlots :
        \/ OnConnectClick(i)
        \/ RequestPortResolves(i)
        \/ RequestPortRejects(i)
        \/ CreateTransport(i)
        \/ MainResolves(i)
        \/ MainRejects(i)
        \/ ReadMacResolves(i)
        \/ ReadMacRejects(i)
        \/ FeaturesResolves(i)
        \/ FeaturesRejects(i)

DisconnectStep ==
    \E j \in DiscSlots :
        \/ OnDisconnectClick(j)
        \/ TransportDisconnectResolves(j)
        \/ TransportDisconnectRejects(j)
        \/ WaitForUnlockResolves(j)
        \/ WaitForUnlockRejects(j)

FlashStep ==
    \E k \in FlashSlots :
        \/ OnFlashClick(k)
        \/ ReportProgress(k)
        \/ WriteResolves(k)
        \/ WriteRejects(k)
        \/ ResetCalled(k)
        \/ ResetResolves(k)
        \/ ResetRejects(k)

UploadStep == \E input \in Uploads : OnZipUpload(input)

Next == ConnectStep \/ DisconnectStep \/ FlashStep \/ UploadStep \/ EditStep

Spec == Init /\ [][Next]_vars

-----------------------------------------------------------------------------
(* The session alone: connects and disconnects in every interleaving *)

SessionNext == ConnectStep \/ DisconnectStep

SpecSession == Init /\ [][SessionNext]_vars

-----------------------------------------------------------------------------
(* Uploading and flashing over an established session.  InitConnected is the *)
(* state a first successful connect leaves (SpecSession reaches it).         *)

InitConnected ==
    /\ call = NoCall
    /\ firmwareFiles = NoFiles
    /\ appConnected = TRUE
    /\ flashing = FALSE
    /\ customOffsets = <<>>
    /\ advancedMode = FALSE
    /\ table = <<>>
    /\ btn = updateUI(TRUE, NoFiles, FALSE)
    /\ fDevice = 1
    /\ fTransport = 1
    /\ fChip = 1
    /\ fEsploader = 1
    /\ fConnected = TRUE
    /\ transports = <<"open">>
    /\ detected = {1}
    /\ conn = [i \in ConnSlots |-> ConnIdle]
    /\ disc = [j \in DiscSlots |-> DiscIdle]
    /\ fl = [k \in FlashSlots |-> FlashIdle]
    /\ eng = EngInit
    /\ hasSerial = TRUE
    /\ ev = Ev("connected", 1, "")

\* one disconnect at a time
SingleDisconnectStep ==
    \/ OnDisconnectClick(1)
    \/ TransportDisconnectResolves(1)
    \/ TransportDisconnectRejects(1)
    \/ WaitForUnlockResolves(1)
    \/ WaitForUnlockRejects(1)

FlashNext == UploadStep \/ FlashStep \/ SingleDisconnectStep

SpecFlash == InitConnected /\ [][FlashNext]_vars

-----------------------------------------------------------------------------
(* FileHandler.getFlashOffset on its own, over file names built from parts *)

MaxParts == 2         \* parts a file name is built from, before ".bin"

NameParts ==
    {<<"b","o","o","t","l","o","a","d","e","r">>,
     <<"p","a","r","t","i","t","i","o","n">>,
     <<"b","o","o","t","_","a","p","p","0">>,
     <<"b","o","o","t","_","a","p","p">>,
     <<"f","i","r","m","w","a","r","e">>,
     <<"a","p","p">>,
     <<"l","i","t","t","l","e","f","s">>,
     <<"s","p","i","f","f","s">>,
     <<"f","s">>,
     <<"f">>,
     <<"s">>,
     <<"x">>,
     <<"B","o","o","t","L","o","a","d","e","r">>,
     <<"F","I","R","M","W","A","R","E">>,
     <<"B","o","o","t","_","A","p","p","0">>,
     <<"S","P","I","F","F","S">>}

RECURSIVE Stems(_)
Stems(n) ==
    IF n = 0 THEN {<<>>}
    ELSE Stems(n - 1) \cup {a \o b : a \in Stems(n - 1), b \in NameParts}

FileNames == {stem \o P_bin : stem \in Stems(MaxParts)}

PureInit == InitApp /\ hasSerial

pureFrame ==
    <<firmwareFiles, appConnected, flashing, customOffsets, advancedMode, table, btn, fDevice,
      fTransport, fChip, fEsploader, fConnected, transports, detected, conn, disc, fl,
      eng, hasSerial, ev>>

CallGetFlashOffset(filename) ==
    /\ call' = [op |-> "getFlashOffset", arg |-> filename, ret |-> getFlashOffset(filename)]
    /\ UNCHANGED pureFrame

OffsetNext == \E filename \in FileNames : CallGetFlashOffset(filename)

SpecOffset == PureInit /\ [][OffsetNext]_vars

-----------------------------------------------------------------------------
(* FileHandler.prepareFirmwareFiles on its own, over image maps *)

MaxImages == 3        \* images in a map

ImageNames ==
    {<<"b","o","o","t","l","o","a","d","e","r",".","b","i","n">>,
     <<"p","a","r","t","i","t","i","o","n","s",".","b","i","n">>,
     <<"b","o","o","t","_","a","p","p","0",".","b","i","n">>,
     <<"F","i","r","m","w","a","r","e",".","b","i","n">>,
     <<"l","i","t","t","l","e","f","s",".","b","i","n">>,
     <<"a","p","p",".","b","i","n">>}

\* the image stored under a name: its content is its own, its length differs by name
ImageOf(name) == [id |-> name, len |-> 1024 * Len(name)]

RECURSIVE ImageMaps(_)
ImageMaps(n) ==
    IF n = 0 THEN {<<>>}
    ELSE ImageMaps(n - 1) \cup
         {Append(mx[1], [name |-> mx[2], data |-> ImageOf(mx[2])]) :
             mx \in {my \in ImageMaps(n - 1) \X ImageNames : ~HasKey(my[1], my[2])}}

CallPrepareFirmwareFiles(files) ==
    /\ call' = [op |-> "prepareFirmwareFiles", arg |-> files,
                ret |-> prepareFirmwareFiles(files)]
    /\ UNCHANGED pureFrame

PlanNext == \E files \in ImageMaps(MaxImages) : CallPrepareFirmwareFiles(files)

SpecPlan == PureInit /\ [][PlanNext]_vars

-----------------------------------------------------------------------------
(* The session, one connect at a time, with Flasher.disconnectDevice also called *)
(* directly, whatever the state of the disconnect button                         *)

SingleConnectStep ==
    \/ OnConnectClick(1)
    \/ RequestPortResolves(1)
    \/ RequestPortRejects(1)
    \/ CreateTransport(1)
    \/ MainResolves(1)
    \/ MainRejects(1)
    \/ ReadMacResolves(1)
    \/ ReadMacRejects(1)
    \/ FeaturesResolves(1)
    \/ FeaturesRejects(1)

DirectDisconnect == \E j \in DiscSlots : DisconnectDeviceCall(j)

DisconnectNext == SingleConnectStep \/ DisconnectStep \/ DirectDisconnect

SpecDisconnect == Init /\ [][DisconnectNext]_vars

-----------------------------------------------------------------------------
(* The session and the flash together, from the start of the application:     *)
(* connects that overlap and fail, a disconnect, the upload of one archive and *)
(* flashes, in every interleaving.  The engine's progress reports, which touch *)
(* neither the session nor the buttons, are left out.                          *)

LifecycleNext ==
    \/ ConnectStep
    \/ SingleDisconnectStep
    \/ OnZipUpload(ZipTwoApps)
    \/ \E k \in FlashSlots :
           \/ OnFlashClick(k)
           \/ WriteResolves(k)
           \/ WriteRejects(k)
           \/ ResetCalled(k)
           \/ ResetResolves(k)
           \/ ResetRejects(k)

SpecLifecycle == Init /\ [][LifecycleNext]_vars

-----------------------------------------------------------------------------
(* flashFirmware reached whatever the session's state: a connect that may fail, *)
(* a disconnect, the upload of one archive, and onFlash's try block run with a  *)
(* loaded set while no flash is in progress, its guards left aside.             *)

GuardNext ==
    \/ SingleConnectStep
    \/ SingleDisconnectStep
    \/ OnZipUpload(ZipTwoApps)
    \/ \E k \in FlashSlots :
           \/ ~flashing /\ ~firmwareFiles.isNull /\ OnFlashTry(k)
           \/ WriteResolves(k)
           \/ WriteRejects(k)
           \/ ResetCalled(k)
           \/ ResetResolves(k)
           \/ ResetRejects(k)

SpecGuard == Init /\ [][GuardNext]_vars

-----------------------------------------------------------------------------
(* FileHandler.extractZipFile on its own, over archives of a few entries *)

MaxEntries == 3       \* entries in an archive

\* the archives: entries with distinct paths (the keys of zip.files), each with
\* bytes of its own.  The paths: the same file name at the top and in two
\* directories, another image, a directory, a text file and a resource fork
RECURSIVE Archives(_)
Archives(n) ==
    LET paths == {Path_firmware, Path_bootloader, Path_readme, Path_macosx, Path_dir,
                  LastComponent(Path_firmware),
                  <<"o","l","d","/">> \o LastComponent(Path_firmware)}
    IN IF n = 0 THEN {<<>>}
       ELSE Archives(n - 1) \cup
            {Append(ap[1], Entry(ap[2], Image(ap[2], 512 * Len(ap[2])))) :
                ap \in {aq \in Archives(n - 1) \X paths :
                           \A i \in 1..Len(aq[1]) : aq[1][i].path # aq[2]}}

CallExtractZipFile(zip) ==
    /\ call' = [op |-> "extractZipFile", arg |-> zip, ret |-> extractZipFile(zip)]
    /\ UNCHANGED pureFrame

ExtractNext == \E zip \in Archives(MaxEntries) : CallExtractZipFile(zip)

SpecExtract == PureInit /\ [][ExtractNext]_vars

-----------------------------------------------------------------------------
(* Uploads of every image map over ImageNames, on an established session *)

\* the archive that holds the images of a map, in the map's order
ZipOf(files) == Zip([i \in 1..Len(files) |-> Entry(files[i].name, files[i].data)])

AllImageMaps == ImageMaps(MaxImages)

UploadNext ==
    \/ \E files \in AllImageMaps : OnZipUpload(ZipOf(files))
    \/ \E kind \in {"none", "corrupt"} : OnZipUpload([kind |-> kind, entries |-> <<>>])

SpecUpload == InitConnected /\ [][UploadNext]_vars

-----------------------------------------------------------------------------
(* The offset editor: uploads, the editing handlers and App.validateOffset called *)
(* on the overrides they commit                                                   *)

CallValidateOffset(filename, value) ==
    /\ call' = [op |-> "validateOffset", arg |-> <<filename, value>>,
                ret |-> validateOffset(customOffsets, filename, value)]
    /\ ev' = Ev("call", 0, "")
    /\ UNCHANGED <<fileVars, flasherVars, appConnected, flashVars, btn, conn, disc,
                   hasSerial, transports, detected>>

EditorNext ==
    \/ \E input \in {ZipOverlap, ZipNoBin} : OnZipUpload(input)
    \/ EditStep
    \/ \E filename \in EditorNames, value \in OffsetValues :
           CallValidateOffset(filename, value)

SpecEditor == PureInit /\ [][EditorNext]_vars

-----------------------------------------------------------------------------
(* Flashing with advanced mode: uploads, the advanced-mode checkbox, overrides  *)
(* committed by blur, and onFlash run whatever the flash button's state, as long *)
(* as no flash is in progress, so that its own guards (lines 160-183) decide.    *)
(* The session is either established or was never opened.                        *)

DirectFlash == \E k \in FlashSlots : ~flashing /\ OnFlashCall(k)

FlashContinues ==
    \E k \in FlashSlots :
        \/ ReportProgress(k)
        \/ WriteResolves(k)
        \/ WriteRejects(k)
        \/ ResetCalled(k)
        \/ ResetResolves(k)
        \/ ResetRejects(k)

AdvancedNext ==
    \/ \E input \in {ZipStandard, ZipNoBin} : OnZipUpload(input)
    \/ \E checked \in BOOLEAN : OnAdvancedModeToggle(checked)
    \/ \E filename \in EditorNames,
          raw \in {OffsetText.blank, OffsetText.x1000, OffsetText.padded} :
           OnOffsetBlur(filename, raw)
    \/ DirectFlash
    \/ FlashContinues

SpecAdvanced == (InitConnected \/ PureInit) /\ [][AdvancedNext]_vars

\* Overrides that outlive their archive: three archives (one with a partition
\* table, one without, one that is rejected) uploaded in any order over an
\* established session, overrides committed by blur, and onFlash run while
\* advanced mode is on and an override is committed.
StaleNext ==
    \/ \E input \in {ZipOverlap, ZipStandard, ZipNoBin} : OnZipUpload(input)
    \/ \E checked \in BOOLEAN : OnAdvancedModeToggle(checked)
    \/ \E filename \in EditorNames,
          raw \in {OffsetText.blank, OffsetText.x1000, OffsetText.x10000} :
           OnOffsetBlur(filename, raw)
    \/ \E k \in FlashSlots : ~flashing /\ UseCustomOffsets /\ OnFlashCall(k)

SpecStale == InitConnected /\ [][StaleNext]_vars

\* The same, each engine call returning or throwing and the 100 ms timer of
\* flasher.js 206 firing: a flash that awaits one of them is resumed.
SpecAdvancedFair ==
    /\ SpecAdvanced
    /\ \A k \in FlashSlots :
           /\ WF_vars(WriteResolves(k) \/ WriteRejects(k))
           /\ WF_vars(ResetCalled(k))
           /\ WF_vars(ResetResolves(k) \/ ResetRejects(k))

-----------------------------------------------------------------------------
(* Claims *)

\* the rule table of the claim C1, in its order
C1_Rules ==
    <<[pats |-> {P_bootloader}, off |-> 0],
      [pats |-> {P_partition}, off |-> 32768],
      [pats |-> {P_boot_app0}, off |-> 57344],
      [pats |-> {P_firmware, P_app}, off |-> 65536],
      [pats |-> {P_littlefs, P_spiffs, P_fs}, off |-> 2686976]>>

C1_Matches(filename) ==
    {r \in 1..Len(C1_Rules) :
        \E p \in C1_Rules[r].pats : includes(toLowerCase(filename), p)}

Overlap(a, b) ==
    /\ a.offset < b.offset + b.data.len
    /\ b.offset < a.offset + a.data.len

PlanOverlaps(plan) ==
    \E i, j \in 1..Len(plan) : i # j /\ Overlap(plan[i], plan[j])

\* C2: no write plan in which two entries' byte ranges overlap is handed to the
\* flashing engine: flashing is blocked before any device write.
C2_NoOverlappingPlanFlashed ==
    \A k \in FlashSlots : fl[k].pc # "idle" => ~PlanOverlaps(fl[k].plan)

\* C3: the plan prepareFirmwareFiles returns holds exactly one entry per input image,
\* with that image's file name and bytes, in non-decreasing order of offset.
C3_PlanIsSortedPermutation ==
    call.op = "prepareFirmwareFiles" =>
        /\ Len(call.ret) = Len(call.arg)
        /\ \A i \in 1..Len(call.arg) :
               Cardinality({j \in 1..Len(call.ret) :
                               /\ call.ret[j].filename = call.arg[i].name
                               /\ call.ret[j].data = call.arg[i].data}) = 1
        /\ \A j \in 1..(Len(call.ret) - 1) : call.ret[j].offset <= call.ret[j + 1].offset

\* three images given in descending order of offset
C3_Witness ==
    /\ call.op = "prepareFirmwareFiles"
    /\ Len(call.arg) = 3
    /\ \A i \in 1..2 : getFlashOffset(call.arg[i].name) > getFlashOffset(call.arg[i + 1].name)
    /\ call.ret[1].filename = call.arg[3].name

\* C4: during one flashFirmware call the engine's writeFlash calls are a prefix of
\* the plan in the caller's order: entry p is the p-th write, with its offset and
\* bytes, no entry is skipped or written twice, and the write of entry i is the
\* only one in flight, every earlier one having returned.
C4_WritesArePlanPrefix ==
    \A k \in FlashSlots :
        fl[k].pc # "idle" =>
            /\ Len(eng.writes) <= Len(fl[k].plan)
            /\ \A p \in 1..Len(eng.writes) :
                   /\ eng.writes[p].idx = p
                   /\ eng.writes[p].address = fl[k].plan[p].offset
                   /\ eng.writes[p].data = arrayBufferToBinaryString(fl[k].plan[p].data)
            /\ \A p \in 1..(Len(eng.writes) - 1) : eng.writes[p].result = "ok"
            /\ fl[k].pc = "write" => Len(eng.writes) = fl[k].i
            /\ fl[k].pc \in {"delay", "reset"} => Len(eng.writes) = Len(fl[k].plan)

\* the third write of a three-entry plan is in flight
C4_Witness ==
    \E k \in FlashSlots :
        /\ fl[k].pc = "write"
        /\ fl[k].i = 3
        /\ Len(eng.writes) = 3

\* the engine's writes that were rejected
Rejected == {p \in 1..Len(eng.writes) : eng.writes[p].result = "rejected"}

IsNaN(p) == p.d = 0 /\ p.n = 0
IsInfinity(p) == p.d = 0 /\ p.n > 0

\* a < b, as JavaScript compares numbers
PercentLess(a, b) ==
    IF IsNaN(a) \/ IsNaN(b) \/ IsInfinity(a) THEN FALSE
    ELSE IF IsInfinity(b) THEN TRUE
    ELSE a.n * b.d < b.n * a.d

\* both states are of one flashFirmware call that has reported progress
\* (a new call starts from NoProgress)
ProgressReportedTwice == eng.progress # NoProgress /\ eng'.progress # NoProgress

\* C6: within one plan execution the overall percent passed to the progress
\* callback never decreases from one callback to the next, whatever the engine
\* reports, across file boundaries and the final report of 100.
C6_ProgressNeverDecreases ==
    [][ProgressReportedTwice => ~PercentLess(eng'.progress, eng.progress)]_vars

\* what the running total of lines 157 and 195 does give (C6 restricted): the
\* percent never decreases as long as no report gives more bytes written than the
\* image being written holds, the engine's reports for one image not decreasing.
C6_ProgressMonotoneWithinLength ==
    [][(ProgressReportedTwice /\ eng'.inLength)
          => ~PercentLess(eng'.progress, eng.progress)]_vars

\* the second image of a plan has reported progress, every report within its length
C6_Witness ==
    /\ eng.inLength
    /\ eng.progress.file = 2
    /\ eng.progress.n > eng.plan[1].data.len

\* C7: whenever connectDevice fails, at whatever step, the session is Disconnected
\* afterwards: Flasher.connected and App.state.connected are false (the failure
\* having been thrown to onConnect).
C7_FailedConnectIsDisconnected ==
    ev.kind = "connectFailed" => (~fConnected /\ ~appConnected)

\* a connect fails at getChipFeatures while an overlapping connect has succeeded
C7_Witness ==
    /\ ev.kind = "connectFailed"
    /\ ev.note = "getChipFeatures"
    /\ fChip # Null

FailedAfterTransport ==
    /\ ev.kind = "connectFailed"
    /\ ev.note \notin {"serial", "requestPort", "esptooljs"}

\* C8: whenever connectDevice fails after the transport has been created, the
\* session holds no transport, device or loader and no transport is left opened
\* and not disconnected.
C8_FailedConnectReleasesTransport ==
    FailedAfterTransport =>
        /\ fTransport = Null
        /\ fDevice = Null
        /\ fEsploader = Null
        /\ \A t \in 1..Len(transports) : transports[t] # "open"

SessionCleared ==
    /\ fDevice = Null
    /\ fTransport = Null
    /\ fChip = Null
    /\ fEsploader = Null
    /\ ~fConnected

\* the step enters disconnectDevice
DisconnectCalled ==
    \/ ev'.kind = "disconnectCall"
    \/ ev'.kind = "disconnected" /\ ev'.note = "sync"

\* C9: disconnectDevice never throws: however transport.disconnect() and
\* waitForUnlock end, it ends with device, transport, chip and esploader null and
\* connected false; called again in that state it changes nothing of the session
\* and calls no transport.
C9_DisconnectIdempotent ==
    [][/\ ev'.kind = "disconnected" => SessionCleared'
       /\ (SessionCleared /\ DisconnectCalled) =>
              /\ SessionCleared'
              /\ ev'.kind = "disconnected"
              /\ UNCHANGED <<disc, transports>>]_vars

\* waitForUnlock failed, after a first disconnect had already ended
C9_Witness ==
    /\ ev.kind = "disconnected"
    /\ ev.note = "waitForUnlock:rejected"
    /\ \E t \in 1..Len(transports) : transports[t] = "closed"
    /\ SessionCleared

Unreleased == {t \in 1..Len(transports) : transports[t] # "closed"}

\* C10: at every instant at most one device session is live: no transport is
\* created while one created by an earlier connect has not been released by
\* disconnect.
C10_AtMostOneLiveTransport == Cardinality(Unreleased) <= 1

\* a flashFirmware call has started and has not ended
FlashInProgress == \E k \in FlashSlots : fl[k].pc # "idle"

\* C11: once a flash has begun it cannot be cancelled: while flashFirmware is in
\* progress no disconnect takes effect, the transport is not disconnected and the
\* session fields are not cleared.
C11_NoDisconnectDuringFlash ==
    [][(FlashInProgress /\ FlashInProgress') => UNCHANGED <<flasherVars, transports>>]_vars

AllWritesOk ==
    /\ Len(eng.writes) = Len(eng.plan)
    /\ \A p \in 1..Len(eng.writes) : eng.writes[p].result = "ok"

\* C12: a hard reset is requested only after every entry of the plan has been
\* written successfully, never before or between writes, and exactly once per
\* successful plan execution.
C12_ResetOncePerSuccessfulPlan ==
    /\ eng.resets <= 1
    /\ eng.resets = 1 => AllWritesOk
    /\ (ev.kind = "flashDone" /\ ev.note = "ok") => eng.resets = 1

\* C13: when every write succeeds and the hard reset fails, flashFirmware ends
\* without throwing: the failure is a warning-level log entry and no error-level
\* one, the final progress 100 is delivered and onFlash reports success.
C13_ResetFailureIsWarning ==
    (ev.kind = "flashDone" /\ eng.reset = "rejected") =>
        /\ ev.note = "ok"
        /\ eng.thrown = NoError
        /\ AllWritesOk
        /\ eng.progress = [n |-> 100, d |-> 100, file |-> 0]
        /\ \E n \in 1..Len(eng.log) :
               eng.log[n] = [type |-> "warning", text |-> "Reset initiated", file |-> <<>>]
        /\ \A n \in 1..Len(eng.log) : eng.log[n].type # "error"
        /\ ~flashing

\* the hard reset of a three-entry plan failed
C13_Witness ==
    /\ ev.kind = "flashDone"
    /\ eng.reset = "rejected"
    /\ Len(eng.plan) = 3
    /\ eng.resets = 1

\* C18: in every write plan that reaches the flashing engine the offsets of the
\* entries are pairwise distinct.
C18_PlanOffsetsDistinct ==
    \A k \in FlashSlots :
        fl[k].pc # "idle" =>
            \A i, j \in 1..Len(fl[k].plan) :
                i # j => fl[k].plan[i].offset # fl[k].plan[j].offset

\* the steps of onFlash and flashFirmware
FlashKinds == {"flashRefused", "flashDone", "writeCalled", "writesDone", "progress",
               "resetCalled"}

\* the session is in the Connected state and a flash can be started
SessionConnected ==
    /\ fConnected /\ appConnected
    /\ fDevice # Null /\ fTransport # Null /\ fEsploader # Null
    /\ ~flashing

\* C20: after a flash operation ends, by success, by a failed reset or by a failed
\* write, the session is back in the Connected state: no step of onFlash and
\* flashFirmware changes the connection fields (device, transport, chip, esploader,
\* connected), so that a further flash can be started without reconnecting.
C20_ConnectedAfterFlash ==
    [][ev'.kind \in FlashKinds =>
          /\ UNCHANGED <<flasherVars, appConnected, transports>>
          /\ (FlashInProgress /\ ev'.kind = "flashDone") =>
                 /\ SessionConnected'
                 /\ btn'.flash = firmwareFiles'.isNull]_vars

\* what does hold of every step of onFlash and flashFirmware (C20 without the
\* state the session is left in): the connection fields are left as they are,
\* and when the flash ends the flashing flag is cleared and the flash button
\* re-evaluated.
C20_FlashLeavesSessionAsIs ==
    [][ev'.kind \in FlashKinds =>
          /\ UNCHANGED <<flasherVars, appConnected, transports>>
          /\ ev'.kind = "flashDone" =>
                 /\ ~flashing'
                 /\ btn'.flash = (~appConnected' \/ firmwareFiles'.isNull)]_vars

\* the last step was an upload of an archive that could be read
ArchiveUploaded == ev.kind = "upload" /\ call.op = "onZipUpload" /\ call.ret[1] = "zip"

NoPrimaryName(files) ==
    \A i \in 1..Len(files) :
        /\ ~includes(toLowerCase(files[i].name), P_firmware)
        /\ ~includes(toLowerCase(files[i].name), P_app)

\* C16: validation rejects the empty image map with the empty-set error and every
\* non-empty map in which no file name contains "firmware" or "app", in any case,
\* with the missing-primary-image error; a rejected upload leaves firmwareFiles
\* null, and while it is null the flash button is disabled.
C16_RejectedUploadLoadsNothing ==
    [][/\ ArchiveUploaded' =>
           /\ call'.arg = <<>> =>
                  call'.ret[2] = "No .bin files found" /\ firmwareFiles'.isNull
           /\ (call'.arg # <<>> /\ NoPrimaryName(call'.arg)) =>
                  /\ call'.ret[2] = "No firmware.bin or app binary found"
                  /\ firmwareFiles'.isNull
           /\ (call'.arg # <<>> /\ ~NoPrimaryName(call'.arg)) =>
                  firmwareFiles' = [isNull |-> FALSE, files |-> call'.arg]
       /\ firmwareFiles'.isNull => btn'.flash]_vars

\* a map of three images, none of them a primary image, was rejected
C16_Witness ==
    /\ ArchiveUploaded
    /\ Len(call.arg) = 3
    /\ call.ret[2] = "No firmware.bin or app binary found"
    /\ firmwareFiles.isNull
    /\ btn.flash

\* the file name resolves through the firmware|app rule of getFlashOffset
ResolvesAsApplication(filename) ==
    /\ C1_Matches(filename) # {}
    /\ \A r \in C1_Matches(filename) : r >= 4
    /\ 4 \in C1_Matches(filename)
    /\ getFlashOffset(filename) = 65536

\* C17: every image set that passes the primary-image gate holds a file that the
\* offset resolver assigns to the main-application region through the
\* firmware|app rule (0x10000).
C17_LoadedSetHasApplicationImage ==
    ~firmwareFiles.isNull =>
        \E i \in 1..Len(firmwareFiles.files) :
            ResolvesAsApplication(firmwareFiles.files[i].name)

\* the hexadecimal digits of the claim C15, with their values
C15_Digit ==
    [c \in {"0","1","2","3","4","5","6","7","8","9"} |->
        CHOOSE n \in 0..9 : <<"0","1","2","3","4","5","6","7","8","9">>[n + 1] = c]
    @@ ("a" :> 10) @@ ("b" :> 11) @@ ("c" :> 12) @@ ("d" :> 13) @@ ("e" :> 14) @@ ("f" :> 15)
    @@ ("A" :> 10) @@ ("B" :> 11) @@ ("C" :> 12) @@ ("D" :> 13) @@ ("E" :> 14) @@ ("F" :> 15)

C15_Blank(value) == \A i \in 1..Len(value) : value[i] = " "

\* 0x followed by at least one hexadecimal digit
C15_WellFormed(value) ==
    /\ Len(value) >= 3
    /\ SubSeq(value, 1, 2) = <<"0", "x">>
    /\ \A i \in 3..Len(value) : value[i] \in DOMAIN C15_Digit

RECURSIVE C15_Pow16(_)
C15_Pow16(n) == IF n = 0 THEN 1 ELSE 16 * C15_Pow16(n - 1)

\* the number a well-formed value denotes
RECURSIVE C15_Sum(_, _)
C15_Sum(value, i) ==
    IF i > Len(value) THEN 0
    ELSE C15_Digit[value[i]] * C15_Pow16(Len(value) - i) + C15_Sum(value, i + 1)

\* the files, other than filename, whose committed override is offset
C15_Others(filename, offset) ==
    {i \in 1..Len(customOffsets) :
        customOffsets[i].name # filename /\ customOffsets[i].data = offset}

\* C15: validateOffset applies its rules in order, the first failure deciding:
\* a blank value is valid with severity none; a value that is not 0x followed by
\* at least one hexadecimal digit is invalid (format); an offset outside
\* 0..0x400000 is invalid (out of range); an offset equal to the committed override
\* of another file is invalid (duplicate, naming that file); an offset that is not
\* a multiple of 0x1000 is valid with a warning; any other is valid with severity
\* success.  A file's own committed override is never a duplicate of itself.
C15_RulesInOrder ==
    call.op = "validateOffset" =>
        LET filename == call.arg[1]
            value == call.arg[2]
            offset == C15_Sum(value, 3)
            r == call.ret
        IN IF C15_Blank(value)
           THEN r.isValid /\ r.type = "none" /\ r.message = ""
           ELSE IF ~C15_WellFormed(value)
           THEN ~r.isValid /\ r.type = "error" /\ r.message = "Invalid format"
           ELSE IF offset < 0 \/ offset > 4194304
           THEN ~r.isValid /\ r.type = "error" /\ r.message = "Offset out of range"
           ELSE IF C15_Others(filename, offset) # {}
           THEN /\ ~r.isValid /\ r.type = "error" /\ r.message = "Duplicate offset"
                /\ \E i \in C15_Others(filename, offset) : r.conflict = customOffsets[i].name
                /\ r.conflict # filename
           ELSE IF offset % 4096 # 0
           THEN r.isValid /\ r.type = "warning" /\ r.message = "Not aligned"
           ELSE r.isValid /\ r.type = "success" /\ r.message = ""

\* a misaligned value that another file has committed is refused as a duplicate
\* (the duplicate rule comes before the alignment rule)
C15_Witness ==
    /\ call.op = "validateOffset"
    /\ call.arg[2] = OffsetText.x10001
    /\ call.ret.message = "Duplicate offset"
    /\ call.ret.conflict # call.arg[1]

\* a file's own committed override, validated again, is not a duplicate
C15_WitnessOwn ==
    /\ call.op = "validateOffset"
    /\ call.arg[2] = OffsetText.x1000
    /\ HasKey(customOffsets, call.arg[1])
    /\ Get(customOffsets, call.arg[1]) = 4096
    /\ call.ret.type = "success"

\* the offset a file is to be written at when overrides are in use: its committed
\* override if it has one, the offset resolved from its name otherwise
AssignedOffset(filename) ==
    IF \E i \in 1..Len(customOffsets) : customOffsets[i].name = filename
    THEN (CHOOSE o \in {customOffsets[i] : i \in 1..Len(customOffsets)} :
              o.name = filename).data
    ELSE getFlashOffset(filename)

\* a step of onFlash itself: no flash was in progress before it
OnFlashStep == ~FlashInProgress /\ ev'.kind \in FlashKinds

\* C14: when onFlash runs with a loaded set, a connected session, advanced mode on
\* and at least one committed override, all of them valid, a flash starts whose
\* plan has one entry per loaded file, each at its committed override if it has
\* one and at the offset resolved from its name otherwise, and the first write
\* handed to the engine is the first entry of that plan.
C14_OverridesAreFlashed ==
    [][(OnFlashStep /\ FlashRefusal = "" /\ UseCustomOffsets) =>
          /\ Len(eng'.plan) = Len(firmwareFiles.files)
          /\ \A i \in 1..Len(firmwareFiles.files) :
                 \E j \in 1..Len(eng'.plan) :
                     /\ eng'.plan[j].filename = firmwareFiles.files[i].name
                     /\ eng'.plan[j].offset = AssignedOffset(firmwareFiles.files[i].name)
          /\ Len(eng'.writes) = 1
          /\ eng'.writes[1].address = eng'.plan[1].offset]_vars

\* C19: when onFlash runs with no loaded set, or with the session not connected, or
\* with advanced mode on and a committed override that fails validateOffset, it
\* returns at once: no flash is in progress after it, the engine's record (its
\* writes and resets) and the connection are as they were, and the flashing flag
\* is false.
C19_RefusedFlashTouchesNothing ==
    [][(OnFlashStep /\ (\/ firmwareFiles.isNull
                        \/ ~appConnected
                        \/ UseCustomOffsets /\ OverridesHaveErrors)) =>
          /\ ev'.kind = "flashRefused"
          /\ UNCHANGED <<fl, eng, flasherVars, transports>>
          /\ ~flashing'
          /\ ~FlashInProgress']_vars

\* onFlash has refused to flash a loaded set because the session is not connected
C19_Witness ==
    /\ ev.kind = "flashRefused"
    /\ ev.note = "Device not connected"
    /\ ~firmwareFiles.isNull
    /\ UseCustomOffsets
    /\ ~flashing

\* onFlash has refused to flash after an earlier flash wrote to the device: no
\* set is loaded any more
C19_WitnessNoFiles ==
    /\ ev.kind = "flashRefused"
    /\ ev.note = "No firmware files loaded"
    /\ appConnected
    /\ Len(eng.writes) > 0

\* the name has the pattern as a case-insensitive substring
Contains(filename, pattern) == includes(toLowerCase(filename), pattern)

\* C22: every file name that contains 'boot_app' (in any case, followed by '0' or
\* not) and contains neither 'bootloader' nor 'partition' resolves to 0xE000.
C22_BootAppResolves ==
    (/\ call.op = "getFlashOffset"
     /\ Contains(call.arg, SubSeq(P_boot_app0, 1, 8))
     /\ ~Contains(call.arg, P_bootloader)
     /\ ~Contains(call.arg, P_partition)) => call.ret = 57344

\* the name matches one of the patterns of the filesystem rule
IsFilesystemName(filename) ==
    Contains(filename, P_littlefs) \/ Contains(filename, P_spiffs) \/ Contains(filename, P_fs)

\* the name matches a rule tested before the filesystem rule
MatchesEarlierRule(filename) ==
    \/ Contains(filename, P_bootloader)
    \/ Contains(filename, P_partition)
    \/ Contains(filename, P_boot_app0)
    \/ Contains(filename, P_firmware)
    \/ Contains(filename, P_app)

\* C23 as stated: every file name that contains 'littlefs', 'spiffs' or 'fs' (in
\* any case) resolves to 0x290000, whatever else it contains.
C23_FilesystemWhateverElse ==
    (call.op = "getFlashOffset" /\ IsFilesystemName(call.arg)) => call.ret = 2686976

\* C23, amended: a file name that contains 'littlefs', 'spiffs' or 'fs' (in any
\* case) resolves to 0x290000 when it contains none of 'bootloader', 'partition',
\* 'boot_app0', 'firmware' and 'app', and to an offset other than 0x290000 (that
\* of the first of those rules it matches) when it contains one of them.
C23_FilesystemUnlessEarlierRule ==
    (call.op = "getFlashOffset" /\ IsFilesystemName(call.arg)) =>
        IF MatchesEarlierRule(call.arg)
        THEN call.ret \in {0, 32768, 57344, 65536}
        ELSE call.ret = 2686976

\* a name matched by the bare 'fs' pattern only, in a name of two parts, resolved
\* to the filesystem offset
C23_Witness ==
    /\ call.op = "getFlashOffset"
    /\ Contains(call.arg, P_fs)
    /\ ~Contains(call.arg, P_littlefs)
    /\ ~Contains(call.arg, P_spiffs)
    /\ ~MatchesEarlierRule(call.arg)
    /\ Len(call.arg) > 6
    /\ call.ret = 2686976

\* name is the last '/'-separated component of path
C26_BareName(path, name) ==
    /\ Len(name) <= Len(path)
    /\ SubSeq(path, Len(path) - Len(name) + 1, Len(path)) = name
    /\ \A i \in 1..Len(name) : name[i] # "/"
    /\ Len(name) < Len(path) => path[Len(path) - Len(name)] = "/"

\* the entries of the archive that are firmware binaries: the path ends in '.bin'
\* and does not contain '__MACOSX'
C26_Kept(zip) ==
    {i \in 1..Len(zip) :
        /\ Len(zip[i].path) >= 4
        /\ SubSeq(zip[i].path, Len(zip[i].path) - 3, Len(zip[i].path)) = <<".","b","i","n">>
        /\ \A k \in 1..(Len(zip[i].path) - 7) :
               SubSeq(zip[i].path, k, k + 7) # <<"_","_","M","A","C","O","S","X">>}

\* C26: the map extractZipFile returns has exactly the bare file names of the
\* archive's firmware binaries as its keys, each key once and mapped to the bytes
\* of an entry of that name, and every firmware binary of the archive, whatever
\* its directory, is in the map with its bytes.
C26_EveryBinaryExtracted ==
    call.op = "extractZipFile" =>
        LET zip == call.arg
            files == call.ret
            kept == C26_Kept(zip)
        IN /\ \A j \in 1..Len(files) :
                  \E i \in kept : /\ C26_BareName(zip[i].path, files[j].name)
                                  /\ files[j].data = zip[i].data
           /\ \A j1, j2 \in 1..Len(files) : files[j1].name = files[j2].name => j1 = j2
           /\ \A i \in kept :
                  \E j \in 1..Len(files) : /\ C26_BareName(zip[i].path, files[j].name)
                                           /\ files[j].data = zip[i].data

\* the byte lengths of the entries of the plan before entry i, added up
RECURSIVE C24_LengthsBefore(_, _)
C24_LengthsBefore(plan, i) ==
    IF i <= 1 THEN 0 ELSE plan[i - 1].data.len + C24_LengthsBefore(plan, i - 1)

\* C24: at every progress callback during the write of plan entry i, the overall
\* percent is (the byte lengths of the entries before i, each counted once, plus
\* the bytes the engine reports written of entry i) over (the byte lengths of all
\* the entries), times 100.
C24_OverallPercent ==
    ev.kind = "progress" =>
        LET f == fl[ev.who] IN
        /\ eng.progress.file = f.i
        /\ eng.progress.n = C24_LengthsBefore(eng.plan, f.i) + f.ewritten
        /\ eng.progress.d = C24_LengthsBefore(eng.plan, Len(eng.plan) + 1)

\* the second of three entries has reported half of its bytes written
C24_Witness ==
    /\ ev.kind = "progress"
    /\ Len(eng.plan) = 3
    /\ fl[ev.who].i = 2
    /\ fl[ev.who].ewritten > 0
    /\ 2 * fl[ev.who].ewritten = eng.plan[2].data.len
    /\ eng.progress.n = eng.plan[1].data.len + fl[ev.who].ewritten

\* C25: the overall percent given to the progress bar is always a number within
\* 0..100, whatever the plan (its byte count may be 0) and whatever the engine
\* reports.
C25_BarWithinRange ==
    /\ eng.bar.d > 0
    /\ 0 <= eng.bar.n
    /\ eng.bar.n <= eng.bar.d

\* what the clamp of updateProgress does give (C25 for plans that hold a byte): the
\* bar stays within 0..100 even when the engine reports more than the plan holds
C25_BarWithinRangeNonEmptyPlan ==
    (\E i \in 1..Len(eng.plan) : eng.plan[i].data.len > 0) => C25_BarWithinRange

\* C21: at most one flash is in flight at any time: no second flashFirmware call
\* starts while an earlier one has not returned, at most one engine write is
\* outstanding, and while a flash is in flight the flashing flag is set and the
\* flash button disabled.
C21_OneFlashInFlight ==
    /\ Cardinality({k \in FlashSlots : fl[k].pc # "idle"}) <= 1
    /\ Cardinality({i \in 1..Len(eng.writes) : eng.writes[i].result = "pending"}) <= 1
    /\ FlashInProgress => (flashing /\ btn.flash)

\* during a flash the connection was lost and made again, updateUI having run
\* with the session connected and a set loaded
C21_Witness ==
    /\ FlashInProgress
    /\ ev.kind = "connected"
    /\ appConnected
    /\ ~firmwareFiles.isNull
    /\ Len(eng.writes) = 2

\* C28: whenever no connect and no disconnect handler is in flight, the flag
\* App.state.connected equals Flasher.connected.
C28_ConnectedFlagsAgree ==
    ((\A i \in ConnSlots : conn[i].pc = "idle") /\ (\A j \in DiscSlots : disc[j].pc = "idle"))
        => appConnected = fConnected

\* of two overlapping connects one has connected the session and the other has
\* then failed: no handler is in flight and both flags are false
C28_Witness ==
    /\ \A i \in ConnSlots : conn[i].pc = "idle"
    /\ \A j \in DiscSlots : disc[j].pc = "idle"
    /\ ev.kind = "connectFailed"
    /\ Len(transports) = 2
    /\ fChip # Null
    /\ ~appConnected
    /\ ~fConnected

\* the committed overrides are pairwise distinct integers within 0..0x400000, one
\* per file
C27_DistinctInRange(offsets) ==
    /\ \A i \in 1..Len(offsets) : offsets[i].data \in 0..4194304
    /\ \A i, j \in 1..Len(offsets) :
           i # j => (offsets[i].name # offsets[j].name /\ offsets[i].data # offsets[j].data)

\* the overrides of the files other than filename
C27_OfOthers(offsets, filename) ==
    {<<offsets[i].name, offsets[i].data>> : i \in {j \in 1..Len(offsets) : offsets[j].name # filename}}

\* C27: after every event of the offset editor and every upload the committed
\* overrides are pairwise distinct integers within 0..0x400000; a blur with an
\* invalid value (wrong format, out of range, or the committed override of another
\* file) leaves the committed overrides as they were, and a blur with a blank
\* value removes the file's override and no other.
C27_CommittedOverridesValid ==
    [][/\ C27_DistinctInRange(customOffsets)
       /\ C27_DistinctInRange(customOffsets')
       /\ call'.op = "onOffsetBlur" =>
              LET filename == call'.arg[1]
                  raw == call'.arg[2]
                  value == trim(raw)
              IN IF C15_Blank(raw)
                 THEN /\ \A i \in 1..Len(customOffsets') : customOffsets'[i].name # filename
                      /\ C27_OfOthers(customOffsets', filename) = C27_OfOthers(customOffsets, filename)
                 ELSE IF \/ ~C15_WellFormed(value)
                         \/ C15_Sum(value, 3) > 4194304
                         \/ C15_Others(filename, C15_Sum(value, 3)) # {}
                 THEN customOffsets' = customOffsets
                 ELSE /\ \E i \in 1..Len(customOffsets') :
                             /\ customOffsets'[i].name = filename
                             /\ customOffsets'[i].data = C15_Sum(value, 3)
                      /\ C27_OfOthers(customOffsets', filename) = C27_OfOthers(customOffsets, filename)]_vars

\* a file with a committed override has lost the focus with the value another
\* file has committed: its own override is as it was
C27_Witness ==
    /\ call.op = "onOffsetBlur"
    /\ call.arg[2] = OffsetText.x1000
    /\ call.ret.message = "Duplicate offset"
    /\ HasKey(customOffsets, call.arg[1])
    /\ Get(customOffsets, call.arg[1]) = 65537
    /\ Len(customOffsets) = 2

\* a blur with a blank value has removed one of two committed overrides
C27_WitnessBlank ==
    /\ call.op = "onOffsetBlur"
    /\ call.arg[2] = OffsetText.blank
    /\ ~HasKey(customOffsets, call.arg[1])
    /\ Len(customOffsets) = 1

\* C29: every flash that sets the flashing flag eventually clears it, each engine
\* call returning or throwing: whenever onFlash ends, whether the plan could not
\* be prepared, a write failed, the reset failed or all went well, the flashing
\* flag is false and the flash button is as updateUI leaves it without a flash.
C29_FlashingFlagCleared ==
    /\ [](ev.kind = "flashDone" =>
             /\ ~flashing
             /\ btn.flash = (~appConnected \/ firmwareFiles.isNull))
    /\ (flashing ~> ~flashing)

\* a flash has ended on a failed write of its second image, the flag cleared
C29_Witness ==
    /\ ev.kind = "flashDone"
    /\ ev.note # "ok"
    /\ Len(eng.writes) = 2
    /\ eng.writes[2].result = "rejected"
    /\ ~flashing
    /\ ~btn.flash

\* a flash has ended because its plan could not be prepared, the flag cleared
C29_WitnessPrepare ==
    /\ ev.kind = "flashDone"
    /\ eng.thrown.name = "TypeError"
    /\ ~flashing
    /\ ~btn.flash

\* C30: flashFirmware called while the session is not connected (connected false,
\* or no loader) throws 'Device not connected' before anything else: no flash is
\* in progress after the call, the engine has been asked for no write and no
\* reset, and neither the log callback nor the progress callback has been called.
C30_GuardBeforeAnything ==
    [][(/\ \A k \in FlashSlots : fl[k].pc = "idle"
        /\ ev'.kind \in {"flashDone", "writeCalled", "writesDone"}
        /\ (~fConnected \/ fEsploader = Null)) =>
          /\ ev'.kind = "flashDone"
          /\ eng'.thrown.name = "Error"
          /\ eng'.thrown.message = "Device not connected"
          /\ eng'.writes = <<>>
          /\ eng'.resets = 0
          /\ eng'.log = <<>>
          /\ eng'.progress.d = -1
          /\ \A k \in FlashSlots : fl'[k].pc = "idle"]_vars

\* flashFirmware has refused a plan of two entries after a failed connect left the
\* loader set and connected false
C30_Witness ==
    /\ ev.kind = "flashDone"
    /\ eng.thrown.message = "Device not connected"
    /\ Len(eng.plan) = 2
    /\ fEsploader # Null
    /\ ~fConnected

\* C31: when onFlash runs with a loaded set, a connected session, advanced mode
\* off and at least one committed override, a flash starts whose plan has one
\* entry per loaded file, each at the offset resolved from its name (whatever
\* override the file has), the first write handed to the engine is the first
\* entry of that plan, and the committed overrides are as they were.
C31_OverridesNeedAdvancedMode ==
    [][(OnFlashStep /\ ~advancedMode /\ Len(customOffsets) > 0
            /\ ~firmwareFiles.isNull /\ appConnected) =>
          /\ ev'.kind = "writeCalled"
          /\ Len(eng'.plan) = Len(firmwareFiles.files)
          /\ \A i \in 1..Len(firmwareFiles.files) :
                 \E j \in 1..Len(eng'.plan) :
                     /\ eng'.plan[j].filename = firmwareFiles.files[i].name
                     /\ eng'.plan[j].offset = getFlashOffset(firmwareFiles.files[i].name)
          /\ Len(eng'.writes) = 1
          /\ eng'.writes[1].address = eng'.plan[1].offset
          /\ customOffsets' = customOffsets]_vars

\* a flash started with advanced mode off while a loaded file has a committed
\* override that differs from the offset resolved from its name
C31_Witness ==
    /\ ev.kind = "writeCalled"
    /\ Len(eng.writes) = 1
    /\ ~advancedMode
    /\ \E i \in 1..Len(customOffsets), j \in 1..Len(eng.plan) :
           /\ customOffsets[i].name = eng.plan[j].filename
           /\ customOffsets[i].data # eng.plan[j].offset
           /\ eng.plan[j].offset = getFlashOffset(eng.plan[j].filename)

\* an override whose file is not in the loaded set (or no set is loaded)
C32_Stale(filename) ==
    \/ firmwareFiles.isNull
    \/ \A i \in 1..Len(firmwareFiles.files) : firmwareFiles.files[i].name # filename

\* C32: an upload, accepted or rejected, leaves the committed overrides as they
\* were; an override whose file is not in the loaded set still counts as a
\* duplicate (a blur of its offset on another file is refused with "Duplicate
\* offset" naming it, and commits nothing); and when onFlash runs with a loaded
\* set, a connected session, advanced mode on and only such overrides committed,
\* they are the overrides in use: onFlash goes past their validation to the plan
\* with overrides, not to the plan of resolved offsets.
C32_UploadKeepsOverrides ==
    [][/\ ev'.kind = "upload" => customOffsets' = customOffsets
       /\ \A i \in 1..Len(customOffsets) :
              (/\ ev'.kind = "offsetBlur"
               /\ call'.op = "onOffsetBlur"
               /\ C32_Stale(customOffsets[i].name)
               /\ call'.arg[1] # customOffsets[i].name
               /\ hexPattern(trim(call'.arg[2]))
               /\ parseInt16(trim(call'.arg[2])) = customOffsets[i].data) =>
                  /\ ~call'.ret.isValid
                  /\ call'.ret.message = "Duplicate offset"
                  /\ call'.ret.conflict = customOffsets[i].name
                  /\ customOffsets' = customOffsets
       /\ (/\ OnFlashStep
           /\ advancedMode
           /\ ~firmwareFiles.isNull
           /\ appConnected
           /\ Len(customOffsets) > 0
           /\ \A i \in 1..Len(customOffsets) : C32_Stale(customOffsets[i].name)) =>
              /\ ev'.kind = "flashDone"
              /\ ev'.note = "error:prepare"
              /\ customOffsets' = customOffsets]_vars

\* with a set loaded, a blur was refused as a duplicate of an override whose
\* file is not in that set: the override was committed under an earlier archive
C32_Witness ==
    /\ ev.kind = "offsetBlur"
    /\ call.op = "onOffsetBlur"
    /\ call.ret.message = "Duplicate offset"
    /\ ~firmwareFiles.isNull
    /\ \E i \in 1..Len(customOffsets) :
           /\ customOffsets[i].name = call.ret.conflict
           /\ C32_Stale(customOffsets[i].name)

=============================================================================
